---- MODULE Spec2Model ----
(***************************************************************************)
(* A model of the metric calculators, of the reform registry and of the    *)
(* data pipeline of the Scottish Budget dashboard                          *)
(* (scripts/scottish_budget_data/calculators.py and reforms.py,            *)
(* src/scottish_budget_data/pipeline.py).                                  *)
(*                                                                         *)
(* Each calculator is a pure function of its arguments; it is modelled by  *)
(* an operator that follows the loops of the code, and by an action that   *)
(* applies the operator to the inputs chosen in the initial state and      *)
(* stores the returned row list.  Floating point quotients are modelled as *)
(* exact fractions [num, den] with den > 0.                                *)
(***************************************************************************)
EXTENDS Integers, Sequences, FiniteSets, TLC

VARIABLES
    called,           \* the operations that have returned so far
    args,             \* reform_id, reform_name and year passed to a calculator
    decile_df,        \* the per-unit decile table (a pandas DataFrame)
    dist_results,     \* rows of DistributionalImpactCalculator
    wl_results,       \* rows of WinnersLosersCalculator
    scatter_calc,     \* the fields of a HouseholdScatterCalculator
    scatter_in,       \* the arrays passed to calculate_from_arrays
    scatter_results,  \* rows of HouseholdScatterCalculator
    years,            \* the years field of a BudgetaryImpactCalculator
    baseline,         \* the baseline simulation: variable -> period -> array
    reformed,         \* the reformed simulation: variable -> period -> array
    sim_reads,        \* the calculate() requests made to the simulations
    bud_results,      \* rows of BudgetaryImpactCalculator
    demo_in,          \* households and geography data of the demographic calculator
    demo_results,     \* rows of DemographicConstituencyCalculator
    met_in,           \* what the simulations return to MetricsCalculator
    met_pc,           \* the position of MetricsCalculator.calculate
    met_part,         \* the sub-metrics computed so far
    met_results,      \* rows of MetricsCalculator
    met_raised,       \* the exception MetricsCalculator.calculate raised
    pc,               \* the position of DataPipeline.run
    skip_input_check, \* the argument of DataPipeline.run
    files,            \* the input files that exist on disk when run starts
    removed,          \* the input files deleted since run started
    sfc_df,           \* the rows of sfc_estimates.csv (when it exists)
    config,           \* the DataConfig of the pipeline
    reforms_arg,      \* the reforms argument of DataPipeline.__init__
    reforms,          \* self.reforms of the pipeline
    reform_idx,       \* the position of the loop over self.reforms
    dataset,          \* the dataset local of run: "unset", "None" or "loaded"
    sims,             \* the simulations of the reform being processed
    year_idx,         \* the position of the loop over config.years in process
    acc,              \* the row lists process has built so far
    calls,            \* the calculator calls made by process so far, in order
    results,          \* the results list of run
    aggregated,       \* the tables returned by aggregate_results
    trace,            \* the external calls made by run so far, in order
    saved,            \* the CSV files written so far
    raised,           \* the exception run has raised, or "none"
    curve_calc,       \* the fields of an IncomeCurveCalculator
    curve_in,         \* the baseline_scenario argument and the engine's output
    curve_sims,       \* the simulations IncomeCurveCalculator.calculate built
    curve_results,    \* rows of IncomeCurveCalculator
    curve_pc,         \* the position of IncomeCurveCalculator.calculate
    con_in,           \* the arrays and tables passed to ConstituencyCalculator
    con_results,      \* rows of ConstituencyCalculator
    agg_in,           \* the arguments of aggregate_results and the estimates file
    agg_out,          \* the tables aggregate_results returned
    registry,         \* the two module-level caches of reforms.py
    registry_calls,   \* the calls made to the public getters, with results
    val_in,           \* the balance mappings passed to calculate_from_values
    val_results       \* rows of BudgetaryImpactCalculator.calculate_from_values

common_vars == <<called, args>>
decile_vars == <<decile_df, dist_results, wl_results>>
scatter_vars == <<scatter_calc, scatter_in, scatter_results>>
bud_vars == <<years, baseline, reformed, sim_reads, bud_results>>
demo_vars == <<demo_in, demo_results>>
met_vars == <<met_in, met_pc, met_part, met_results, met_raised>>
calc_vars == <<common_vars, decile_vars, scatter_vars, bud_vars, demo_vars,
               met_vars>>
pipe_inputs ==
    <<skip_input_check, files, sfc_df, config, reforms_arg, reforms>>
process_vars == <<year_idx, acc, calls>>
pipe_vars == <<pc, pipe_inputs, removed, reform_idx, dataset, sims,
               process_vars, results, aggregated, trace, saved, raised>>

curve_vars == <<curve_calc, curve_in, curve_sims, curve_results, curve_pc>>
con_vars == <<con_in, con_results>>
agg_vars == <<agg_in, agg_out>>
reg_vars == <<registry, registry_calls>>
val_vars == <<val_in, val_results>>
other_vars == <<curve_vars, con_vars, agg_vars, reg_vars, val_vars>>

vars == <<calc_vars, pipe_vars, other_vars>>

-----------------------------------------------------------------------------
(* Bounds of the model *)

\* the largest number of units (households) of an input table or array
MaxUnits == 2

\* the largest number of entries of a years list
MaxYears == 2

\* the largest number of rows of the geography reference table
MaxGeo == 1

\* the largest number of reforms in a list given to the pipeline
MaxReforms == 2

-----------------------------------------------------------------------------
(* Arithmetic helpers *)

\* a quotient n / d (d # 0) as a fraction with a positive denominator
Rat(n, d) == IF d < 0 THEN [num |-> -n, den |-> -d] ELSE [num |-> n, den |-> d]

\* the literal 0 of the "else 0" branches
Zero == [num |-> 0, den |-> 1]

RatEq(a, b) == a.num * b.den = b.num * a.den

RatAdd(a, b) == [num |-> a.num * b.den + b.num * a.den, den |-> a.den * b.den]

RatScale(k, a) == [num |-> k * a.num, den |-> a.den]

\* Series.sum(): the sum of a sequence of numbers, 0 for the empty one
RECURSIVE SumSeq(_)
SumSeq(s) == IF s = <<>> THEN 0 ELSE Head(s) + SumSeq(Tail(s))

\* the same sum written over an index set (used by the properties only)
RECURSIVE SumOver(_, _)
SumOver(S, f) ==
    IF S = {} THEN 0
    ELSE LET i == CHOOSE j \in S : TRUE IN f[i] + SumOver(S \ {i}, f)

\* all sequences over S of length at most n
SeqsUpTo(S, n) == UNION {[1..k -> S] : k \in 0..n}

-----------------------------------------------------------------------------
(* Inputs shared by the calculators *)

\* the (reform_id, reform_name, year) triples handed to a calculator
CallArgs ==
    { [reform_id |-> "scottish_threshold_freeze",
       reform_name |-> "Scottish threshold freeze", year |-> 2026],
      [reform_id |-> "freeze_student_loan_thresholds",
       reform_name |-> "Freeze student loan thresholds", year |-> 2027] }

-----------------------------------------------------------------------------
(* DistributionalImpactCalculator and WinnersLosersCalculator *)

decile_names ==
    <<"1st", "2nd", "3rd", "4th", "5th", "6th", "7th", "8th", "9th", "10th">>

\* str(decile_num) for decile_num in range(1, 11)
StrOfDecile == <<"1", "2", "3", "4", "5", "6", "7", "8", "9", "10">>

\* the rows of one table: decile label, baseline income, income change, weight
DecileUnits ==
    [household_income_decile : {1, 10, 11},
     baseline_income : {-100, 100, 200},
     income_change : {-20, 10},
     household_weight : {0, 1}]

\* decile_df[decile_df["household_income_decile"] == decile_num]
DecileData(df, decile_num) ==
    SelectSeq(df, LAMBDA u : u.household_income_decile = decile_num)

\* (data["income_change"] * data["household_weight"]).sum()
WeightedChange(data) ==
    SumSeq([i \in 1..Len(data) |->
               data[i].income_change * data[i].household_weight])

\* (data["baseline_income"] * data["household_weight"]).sum()
WeightedBaseline(data) ==
    SumSeq([i \in 1..Len(data) |->
               data[i].baseline_income * data[i].household_weight])

\* data["household_weight"].sum()
TotalWeight(data) ==
    SumSeq([i \in 1..Len(data) |-> data[i].household_weight])

DistRelChangeNonzeroGuard(weighted_change, weighted_baseline) ==
    IF weighted_baseline # 0
    THEN Rat(weighted_change * 100, weighted_baseline)
    ELSE Zero

\* (weighted_change / weighted_baseline) * 100 if weighted_baseline > 0 else 0
DistRelChange(weighted_change, weighted_baseline) ==
    IF weighted_baseline > 0
    THEN Rat(weighted_change * 100, weighted_baseline)
    ELSE Zero

\* the body of the loop over range(1, 11), from decile_num on
RECURSIVE DistLoop(_, _, _)
DistLoop(a, df, decile_num) ==
    IF decile_num > 10 THEN <<>>
    ELSE LET decile_data == DecileData(df, decile_num)
             row == [reform_id |-> a.reform_id,
                     reform_name |-> a.reform_name,
                     year |-> a.year,
                     decile |-> decile_names[decile_num],
                     value |-> DistRelChange(WeightedChange(decile_data),
                                             WeightedBaseline(decile_data))]
         IN (IF Len(decile_data) > 0 THEN <<row>> ELSE <<>>)
                \o DistLoop(a, df, decile_num + 1)

\* DistributionalImpactCalculator.calculate_from_dataframe
DistCalculateFromDataframe(a, df) == DistLoop(a, df, 1)

WLAvgChangeSkipZero(weighted_change, total_hh) ==
    IF total_hh > 0 THEN <<Rat(weighted_change, total_hh)>> ELSE <<>>

\* avg_change = weighted_change / total_hh if total_hh > 0 else 0, as the
\* list of values the loop body appends for the decile
WLAvgChange(weighted_change, total_hh) ==
    IF total_hh > 0 THEN <<Rat(weighted_change, total_hh)>> ELSE <<Zero>>

WLRow(a, decile, avg_change) ==
    [reform_id |-> a.reform_id, reform_name |-> a.reform_name,
     year |-> a.year, decile |-> decile, avg_change |-> avg_change]

\* the body of the loop over range(1, 11), from decile_num on
RECURSIVE WLLoop(_, _, _)
WLLoop(a, df, decile_num) ==
    IF decile_num > 10 THEN <<>>
    ELSE LET decile_data == DecileData(df, decile_num)
             avg == WLAvgChange(WeightedChange(decile_data),
                                TotalWeight(decile_data))
         IN (IF Len(decile_data) > 0
             THEN [i \in 1..Len(avg) |->
                      WLRow(a, StrOfDecile[decile_num], avg[i])]
             ELSE <<>>)
                \o WLLoop(a, df, decile_num + 1)

WLOverallUnweighted(df) ==
    IF Len(df) > 0
    THEN Rat(SumSeq([i \in 1..Len(df) |-> df[i].income_change]), Len(df))
    ELSE Zero

\* overall_avg = overall_weighted / overall_hh if overall_hh > 0 else 0
WLOverall(df) ==
    IF TotalWeight(df) > 0
    THEN Rat(WeightedChange(df), TotalWeight(df))
    ELSE Zero

WLCalculateAllFirst(a, df) ==
    <<WLRow(a, "all", WLOverall(df))>> \o WLLoop(a, df, 1)

\* WinnersLosersCalculator.calculate_from_dataframe
WLCalculateFromDataframe(a, df) ==
    WLLoop(a, df, 1) \o <<WLRow(a, "all", WLOverall(df))>>

\* the calculators that a specification does not exercise hold no data
CommonIdle ==
    /\ called = {}
    /\ args = [reform_id |-> "-", reform_name |-> "-", year |-> 0]

DecileIdle == decile_df = <<>> /\ dist_results = <<>> /\ wl_results = <<>>

ScatterIdle ==
    /\ scatter_calc = [min_income |-> 0, max_income |-> 150000,
                       sample_size |-> 2000]
    /\ scatter_in = [baseline_incomes |-> <<>>, income_changes |-> <<>>,
                     weights |-> <<>>, has_ids |-> FALSE,
                     household_ids |-> <<>>]
    /\ scatter_results = <<>>

BudIdle ==
    /\ years = <<>>
    /\ baseline = <<>>
    /\ reformed = <<>>
    /\ sim_reads = {}
    /\ bud_results = <<>>

DemoIdle ==
    /\ demo_in = [baseline_income |-> <<>>, reform_income |-> <<>>,
                  num_children |-> <<>>, is_married |-> <<>>,
                  constituency_weights |-> <<>>, constituency_df |-> <<>>]
    /\ demo_results = <<>>

MetIdle ==
    /\ met_in = [households |-> <<>>, persons |-> <<>>, missing |-> {}]
    /\ met_pc = "idle"
    /\ met_part = <<>>
    /\ met_results = <<>>
    /\ met_raised = "none"

\* no pipeline is running
CurveIdle ==
    /\ curve_calc = [max_income |-> 0, num_points |-> 0]
    /\ curve_in = [baseline_scenario |-> "None", hnet |-> <<>>]
    /\ curve_sims = <<>>
    /\ curve_results = <<>>
    /\ curve_pc = "idle"

ConIdle ==
    /\ con_in = [baseline_income |-> <<>>, reform_income |-> <<>>,
                 constituency_weights |-> <<>>, constituency_df |-> <<>>]
    /\ con_results = <<>>

AggIdle ==
    /\ agg_in = [results |-> <<>>, config |-> FALSE, sfc_exists |-> FALSE,
                 sfc_df |-> <<>>]
    /\ agg_out = <<>>

\* a module-level cache that is still None
NoneCache == [is_none |-> TRUE, value |-> <<>>]

\* reforms.py as imported: both caches None, nothing constructed
RegIdle ==
    /\ registry = [reforms_cache |-> NoneCache, lookup_cache |-> NoneCache,
                   list_builds |-> 0, lookup_builds |-> 0]
    /\ registry_calls = <<>>

ValIdle ==
    /\ val_in = [variable |-> "gov_balance", baseline_balances |-> <<>>,
                 reformed_balances |-> <<>>]
    /\ val_results = <<>>

OtherIdle == CurveIdle /\ ConIdle /\ AggIdle /\ RegIdle /\ ValIdle

PipeIdle ==
    /\ pc = "idle"
    /\ skip_input_check = FALSE
    /\ files = {}
    /\ sfc_df = <<>>
    /\ config = [years |-> <<>>, dataset_path |-> FALSE,
                 baseline_parameter_changes |-> FALSE]
    /\ reforms_arg = [provided |-> FALSE, list |-> <<>>]
    /\ reforms = <<>>
    /\ removed = {}
    /\ reform_idx = 0
    /\ dataset = "unset"
    /\ sims = <<>>
    /\ year_idx = 0
    /\ acc = <<>>
    /\ calls = <<>>
    /\ results = <<>>
    /\ aggregated = <<>>
    /\ trace = <<>>
    /\ saved = {}
    /\ raised = "none"

DecileInit ==
    /\ called = {}
    /\ args \in CallArgs
    /\ decile_df \in SeqsUpTo(DecileUnits, MaxUnits)
    /\ dist_results = <<>>
    /\ wl_results = <<>>
    /\ ScatterIdle /\ BudIdle /\ DemoIdle /\ PipeIdle /\ OtherIdle /\ MetIdle

DistributionalFromDataframe ==
    /\ "distributional" \notin called
    /\ dist_results' = DistCalculateFromDataframe(args, decile_df)
    /\ called' = called \cup {"distributional"}
    /\ UNCHANGED <<other_vars,
                   args, decile_df, wl_results, scatter_vars, bud_vars,
                   demo_vars, pipe_vars,
                   met_vars>>

WinnersLosersFromDataframe ==
    /\ "winners_losers" \notin called
    /\ wl_results' = WLCalculateFromDataframe(args, decile_df)
    /\ called' = called \cup {"winners_losers"}
    /\ UNCHANGED <<other_vars,
                   args, decile_df, dist_results, scatter_vars, bud_vars,
                   demo_vars, pipe_vars,
                   met_vars>>

DecileNext == DistributionalFromDataframe \/ WinnersLosersFromDataframe

DecileSpec == DecileInit /\ [][DecileNext]_vars

-----------------------------------------------------------------------------
(* Properties of the decile calculators *)

\* the units of the table that carry decile label d
UnitsOf(df, d) == {i \in 1..Len(df) : df[i].household_income_decile = d}

\* sum of household_weight * income_change over the units S
SigmaChange(df, S) ==
    SumOver(S, [i \in 1..Len(df) |->
                   df[i].household_weight * df[i].income_change])

\* sum of household_weight * baseline_income over the units S
SigmaBaseline(df, S) ==
    SumOver(S, [i \in 1..Len(df) |->
                   df[i].household_weight * df[i].baseline_income])

\* sum of household_weight over the units S
SigmaWeight(df, S) ==
    SumOver(S, [i \in 1..Len(df) |-> df[i].household_weight])

DistRowsOf(d) ==
    {i \in 1..Len(dist_results) : dist_results[i].decile = decile_names[d]}

WLRowsOf(label) ==
    {i \in 1..Len(wl_results) : wl_results[i].decile = label}

\* C1 as stated: for every decile 1..10 with at least one unit the reported
\* value is 100 * sum(w * change) / sum(w * baseline) whenever the weighted
\* baseline income is nonzero, and exactly 0 when it is zero.
C1_Original ==
    "distributional" \in called =>
        \A d \in 1..10 :
            UnitsOf(decile_df, d) # {} =>
                LET U == UnitsOf(decile_df, d)
                    wb == SigmaBaseline(decile_df, U)
                    wc == SigmaChange(decile_df, U)
                IN /\ Cardinality(DistRowsOf(d)) = 1
                   /\ \A i \in DistRowsOf(d) :
                        IF wb # 0
                        THEN RatEq(dist_results[i].value, Rat(100 * wc, wb))
                        ELSE dist_results[i].value.num = 0

\* C1 (amended): for every decile 1..10 with at least one unit exactly one
\* row is reported, whose value is 100 * sum(w * change) / sum(w * baseline)
\* whenever the weighted baseline income is positive, and exactly 0 when it
\* is zero or negative.
C1_DistributionalValue ==
    "distributional" \in called =>
        \A d \in 1..10 :
            UnitsOf(decile_df, d) # {} =>
                LET U == UnitsOf(decile_df, d)
                    wb == SigmaBaseline(decile_df, U)
                    wc == SigmaChange(decile_df, U)
                IN /\ Cardinality(DistRowsOf(d)) = 1
                   /\ \A i \in DistRowsOf(d) :
                        IF wb > 0
                        THEN RatEq(dist_results[i].value, Rat(100 * wc, wb))
                        ELSE dist_results[i].value.num = 0

\* the end-to-end scenario: weights [1,1], baseline [100,200], changes
\* [10,-20] in one decile are reported as -10/300 * 100
C1_Witness ==
    /\ "distributional" \in called
    /\ decile_df =
         << [household_income_decile |-> 1, baseline_income |-> 100,
             income_change |-> 10, household_weight |-> 1],
            [household_income_decile |-> 1, baseline_income |-> 200,
             income_change |-> -20, household_weight |-> 1] >>
    /\ Len(dist_results) = 1
    /\ dist_results[1].decile = "1st"
    /\ RatEq(dist_results[1].value, Rat(-1000, 300))

\* C2 as stated: no row is emitted for a decile 1..10 whose total household
\* weight is zero, also when the decile has units that all have weight zero.
C2_Original ==
    "winners_losers" \in called =>
        \A d \in 1..10 :
            SigmaWeight(decile_df, UnitsOf(decile_df, d)) = 0
                => WLRowsOf(StrOfDecile[d]) = {}

\* C2 (amended): a row is emitted for a decile 1..10 exactly when the decile
\* has at least one unit; a decile without units is absent, and a decile
\* whose units all have weight zero is present with avg_change 0.
C2_RowIffUnits ==
    "winners_losers" \in called =>
        \A d \in 1..10 :
            LET U == UnitsOf(decile_df, d)
                R == WLRowsOf(StrOfDecile[d])
            IN /\ (U = {}) => (R = {})
               /\ (U # {}) => Cardinality(R) = 1
               /\ (U # {} /\ SigmaWeight(decile_df, U) = 0)
                      => \A i \in R : wl_results[i].avg_change.num = 0

\* a decile whose only units have weight zero is reported with avg_change 0
C2_Witness ==
    /\ "winners_losers" \in called
    /\ \E d \in 1..10 :
          /\ UnitsOf(decile_df, d) # {}
          /\ SigmaWeight(decile_df, UnitsOf(decile_df, d)) = 0
          /\ \E i \in WLRowsOf(StrOfDecile[d]) :
                wl_results[i].avg_change.num = 0

\* the decile number a per-decile row was emitted for
DecileOfLabel(label) == CHOOSE d \in 1..10 : StrOfDecile[d] = label

\* the sum over the emitted per-decile rows, from row i on, of the decile's
\* total weight times the row's avg_change
RECURSIVE WeightedRowSum(_, _, _)
WeightedRowSum(rows, df, i) ==
    IF i > Len(rows) THEN Zero
    ELSE IF rows[i].decile = "all" THEN WeightedRowSum(rows, df, i + 1)
    ELSE RatAdd(
            RatScale(SigmaWeight(df, UnitsOf(df, DecileOfLabel(rows[i].decile))),
                     rows[i].avg_change),
            WeightedRowSum(rows, df, i + 1))

\* the sum of the total weights of the deciles that have a row, from row i on
RECURSIVE RowWeightSum(_, _, _)
RowWeightSum(rows, df, i) ==
    IF i > Len(rows) THEN 0
    ELSE IF rows[i].decile = "all" THEN RowWeightSum(rows, df, i + 1)
    ELSE SigmaWeight(df, UnitsOf(df, DecileOfLabel(rows[i].decile)))
            + RowWeightSum(rows, df, i + 1)

\* the "all" row times the summed decile weights equals the weighted sum of
\* the per-decile rows
OverallConsistent ==
    \A i \in WLRowsOf("all") :
        RatEq(RatScale(RowWeightSum(wl_results, decile_df, 1),
                       wl_results[i].avg_change),
              WeightedRowSum(wl_results, decile_df, 1))

\* C3 as stated: the avg_change of the "all" row equals the mean of the
\* emitted per-decile avg_change values weighted by the deciles' total
\* weights, whatever decile labels the units of the table carry.
C3_Original == "winners_losers" \in called => OverallConsistent

\* C3 (amended): the avg_change of the "all" row equals the mean of the
\* emitted per-decile avg_change values weighted by the deciles' total
\* weights, provided every unit of the table carries a decile label in 1..10.
C3_OverallIsWeightedMean ==
    ("winners_losers" \in called
        /\ \A i \in 1..Len(decile_df) :
              decile_df[i].household_income_decile \in 1..10)
    => OverallConsistent

\* two deciles with different averages and positive weight, and an "all" row
\* that is their weighted mean
C3_Witness ==
    /\ "winners_losers" \in called
    /\ Len(decile_df) = 2
    /\ decile_df[1].household_income_decile = 1
    /\ decile_df[2].household_income_decile = 10
    /\ decile_df[1].household_weight = 1
    /\ decile_df[2].household_weight = 1
    /\ decile_df[1].income_change # decile_df[2].income_change
    /\ Len(wl_results) = 3
    /\ OverallConsistent

\* C4: every decile 1..10 with positive total weight is reported with
\* avg_change = sum(w * change) / sum(w) over its units; the "all" row reports
\* the same quotient over all units of the table (when their total weight is
\* positive) and is emitted exactly once, as the last row.
C4_WinnersLosersAverages ==
    "winners_losers" \in called =>
        /\ \A d \in 1..10 :
              LET U == UnitsOf(decile_df, d) IN
              SigmaWeight(decile_df, U) > 0 =>
                  /\ Cardinality(WLRowsOf(StrOfDecile[d])) = 1
                  /\ \A i \in WLRowsOf(StrOfDecile[d]) :
                        RatEq(wl_results[i].avg_change,
                              Rat(SigmaChange(decile_df, U),
                                  SigmaWeight(decile_df, U)))
        /\ WLRowsOf("all") = {Len(wl_results)}
        /\ LET All == 1..Len(decile_df) IN
           SigmaWeight(decile_df, All) > 0 =>
               RatEq(wl_results[Len(wl_results)].avg_change,
                     Rat(SigmaChange(decile_df, All),
                         SigmaWeight(decile_df, All)))

\* weights [1,1] with changes [10,-20] give an overall average of -5
C4_Witness ==
    /\ "winners_losers" \in called
    /\ Len(decile_df) = 2
    /\ decile_df[1].household_weight = 1 /\ decile_df[1].income_change = 10
    /\ decile_df[2].household_weight = 1 /\ decile_df[2].income_change = -20
    /\ decile_df[1].household_income_decile = 1
    /\ decile_df[2].household_income_decile = 1
    /\ Len(wl_results) = 2
    /\ RatEq(wl_results[1].avg_change, Rat(-5, 1))
    /\ wl_results[2].decile = "all"
    /\ RatEq(wl_results[2].avg_change, Rat(-5, 1))

-----------------------------------------------------------------------------
(* HouseholdScatterCalculator *)

\* the (min_income, max_income, sample_size) fields of the calculator
ScatterCalcs ==
    { [min_income |-> w[1], max_income |-> w[2], sample_size |-> n] :
        w \in {<<0, 150000>>, <<0, 75000>>, <<75000, 150000>>},
        n \in {1, 2000} }

\* one household: baseline income, income change, weight
ScatterUnits ==
    [baseline_income : {-1, 0, 75000, 150000, 150001},
     income_change : {-20, 10},
     household_weight : {1, 2}]

\* the stable FRS household id of the household at position i
HouseholdIdAt(i) == 1000 + i

\* the arrays of calculate_from_arrays built from a list of households
ScatterArrays(hh, has_ids) ==
    [baseline_incomes |-> [i \in 1..Len(hh) |-> hh[i].baseline_income],
     income_changes |-> [i \in 1..Len(hh) |-> hh[i].income_change],
     weights |-> [i \in 1..Len(hh) |-> hh[i].household_weight],
     has_ids |-> has_ids,
     household_ids |-> IF has_ids THEN [i \in 1..Len(hh) |-> HouseholdIdAt(i)]
                       ELSE <<>>]

\* int(x) of an integral identifier
PyInt(x) == x

ScatterMaskExclusiveMax(calc, baseline_income) ==
    (baseline_income >= calc.min_income) /\ (baseline_income < calc.max_income)

\* mask = (baseline_incomes >= min_income) & (baseline_incomes <= max_income)
ScatterMask(calc, baseline_income) ==
    (baseline_income >= calc.min_income) /\ (baseline_income <= calc.max_income)

\* the row built for household i
ScatterRow(a, in, i) ==
    LET row == [reform_id |-> a.reform_id,
                reform_name |-> a.reform_name,
                year |-> a.year,
                baseline_income |-> in.baseline_incomes[i],
                income_change |-> in.income_changes[i],
                household_weight |-> in.weights[i]]
    IN IF in.has_ids
       THEN row @@ [household_id |-> PyInt(in.household_ids[i])]
       ELSE row

\* the loop over range(len(baseline_incomes)), from household i on
RECURSIVE ScatterLoop(_, _, _, _)
ScatterLoop(calc, a, in, i) ==
    IF i > Len(in.baseline_incomes) THEN <<>>
    ELSE (IF ScatterMask(calc, in.baseline_incomes[i])
          THEN <<ScatterRow(a, in, i)>>
          ELSE <<>>)
             \o ScatterLoop(calc, a, in, i + 1)

ScatterCalculateSampled(calc, a, in) ==
    LET all == ScatterLoop(calc, a, in, 1)
    IN IF Len(all) > calc.sample_size
       THEN SubSeq(all, 1, calc.sample_size)
       ELSE all

\* HouseholdScatterCalculator.calculate_from_arrays
ScatterCalculateFromArrays(calc, a, in) == ScatterLoop(calc, a, in, 1)

ScatterInit ==
    /\ called = {}
    /\ args \in CallArgs
    /\ scatter_calc \in ScatterCalcs
    /\ \E hh \in SeqsUpTo(ScatterUnits, MaxUnits), has_ids \in BOOLEAN :
          scatter_in = ScatterArrays(hh, has_ids)
    /\ scatter_results = <<>>
    /\ DecileIdle /\ BudIdle /\ DemoIdle /\ PipeIdle /\ OtherIdle /\ MetIdle

HouseholdScatterFromArrays ==
    /\ "household_scatter" \notin called
    /\ scatter_results' =
          ScatterCalculateFromArrays(scatter_calc, args, scatter_in)
    /\ called' = called \cup {"household_scatter"}
    /\ UNCHANGED <<other_vars,
                   args, scatter_calc, scatter_in, decile_vars, bud_vars,
                   demo_vars, pipe_vars,
                   met_vars>>

ScatterNext == HouseholdScatterFromArrays

ScatterSpec == ScatterInit /\ [][ScatterNext]_vars

-----------------------------------------------------------------------------
(* Properties of the household scatter calculator *)

\* the households whose baseline income lies in [min_income, max_income]
InWindow ==
    {i \in 1..Len(scatter_in.baseline_incomes) :
        /\ scatter_in.baseline_incomes[i] >= scatter_calc.min_income
        /\ scatter_in.baseline_incomes[i] <= scatter_calc.max_income}

\* the k-th household inside the window, in input order
KthInWindow(k) ==
    CHOOSE i \in InWindow : Cardinality({j \in InWindow : j <= i}) = k

\* C5: no emitted row has a baseline income below min_income or above
\* max_income, and a household whose baseline income equals min_income or
\* max_income exactly is emitted.
C5_ScatterWindow ==
    "household_scatter" \in called =>
        /\ \A k \in 1..Len(scatter_results) :
              /\ scatter_results[k].baseline_income >= scatter_calc.min_income
              /\ scatter_results[k].baseline_income <= scatter_calc.max_income
        /\ \A i \in 1..Len(scatter_in.baseline_incomes) :
              (scatter_in.baseline_incomes[i]
                    \in {scatter_calc.min_income, scatter_calc.max_income})
              => \E k \in 1..Len(scatter_results) :
                    /\ scatter_results[k].baseline_income
                          = scatter_in.baseline_incomes[i]
                    /\ scatter_results[k].income_change
                          = scatter_in.income_changes[i]
                    /\ scatter_results[k].household_weight
                          = scatter_in.weights[i]
                    /\ scatter_in.has_ids =>
                          scatter_results[k].household_id
                             = scatter_in.household_ids[i]

\* a household exactly at max_income and one exactly at min_income are
\* emitted, one above max_income is not
C5_Witness ==
    /\ "household_scatter" \in called
    /\ Len(scatter_in.baseline_incomes) = 2
    /\ scatter_in.baseline_incomes[1] = scatter_calc.max_income
    /\ scatter_in.baseline_incomes[2] = scatter_calc.min_income
    /\ Len(scatter_results) = 2

-----------------------------------------------------------------------------
(* BudgetaryImpactCalculator *)

STUDENT_LOAN_REFORMS == {"freeze_student_loan_thresholds"}

\* the divisor 1e9 that turns pounds into billions
Billion == 1000000000

\* the periods a years list is drawn from
Periods == {2026, 2027}

\* the aggregate variables the calculator may request
BalanceVariables == {"gov_balance", "student_loan_repayment"}

\* per-unit result arrays of the simulation engine, in pounds
BalanceArrays ==
    { <<1000000000, 500000000>>, <<1250000000, -250000000>> }

\* a simulation: for every variable and period, the array calculate() returns
Simulations == [BalanceVariables -> [Periods -> BalanceArrays]]

\* (reformed_array - baseline_array).sum()
DiffSum(reformed_array, baseline_array) ==
    SumSeq([i \in 1..Len(baseline_array) |->
               reformed_array[i] - baseline_array[i]])

BudgetVariableAlwaysBalance(reform_id) == "gov_balance"

\* the variable the loop body requests for a reform id
BudgetVariable(reform_id) ==
    IF reform_id \in STUDENT_LOAN_REFORMS
    THEN "student_loan_repayment"
    ELSE "gov_balance"

BudgetImpactBaselineMinusReform(base_sim, reform_sim, reform_id, year) ==
    Rat(DiffSum(base_sim[BudgetVariable(reform_id)][year],
                reform_sim[BudgetVariable(reform_id)][year]), Billion)

\* impact = (reformed - baseline).sum() / 1e9 for one year
BudgetImpact(base_sim, reform_sim, reform_id, year) ==
    Rat(DiffSum(reform_sim[BudgetVariable(reform_id)][year],
                base_sim[BudgetVariable(reform_id)][year]), Billion)

\* the rows of BudgetaryImpactCalculator.calculate, one per entry of years
BudgetCalculate(ys, base_sim, reform_sim, a) ==
    [i \in 1..Len(ys) |->
        [reform_id |-> a.reform_id,
         reform_name |-> a.reform_name,
         year |-> ys[i],
         value |-> BudgetImpact(base_sim, reform_sim, a.reform_id, ys[i])]]

\* the calculate() requests BudgetaryImpactCalculator.calculate makes
BudgetReads(ys, reform_id) ==
    { [sim |-> sm, variable |-> BudgetVariable(reform_id), period |-> ys[i]] :
        sm \in {"baseline", "reformed"}, i \in 1..Len(ys) }

BudInit ==
    /\ called = {}
    /\ args \in CallArgs
    /\ years \in SeqsUpTo(Periods, MaxYears)
    /\ baseline \in Simulations
    /\ reformed \in Simulations
    /\ sim_reads = {}
    /\ bud_results = <<>>
    /\ DecileIdle /\ ScatterIdle /\ DemoIdle /\ PipeIdle /\ OtherIdle /\ MetIdle

BudgetaryCalculate ==
    /\ "budgetary" \notin called
    /\ bud_results' = BudgetCalculate(years, baseline, reformed, args)
    /\ sim_reads' = sim_reads \cup BudgetReads(years, args.reform_id)
    /\ called' = called \cup {"budgetary"}
    /\ UNCHANGED <<other_vars,
                   args, years, baseline, reformed, decile_vars, scatter_vars,
                   demo_vars, pipe_vars,
                   met_vars>>

BudNext == BudgetaryCalculate

BudSpec == BudInit /\ [][BudNext]_vars

-----------------------------------------------------------------------------
(* Properties of the budgetary impact calculator *)

\* the aggregate of a variable in a simulation for a period
Aggregate(simulation, variable, period) ==
    SumOver(1..Len(simulation[variable][period]), simulation[variable][period])

\* reform aggregate minus baseline aggregate of a variable for a period
AggregateDiff(variable, period) ==
    Aggregate(reformed, variable, period) - Aggregate(baseline, variable, period)

\* C7: for a student-loan-threshold reform every year's value is the
\* difference of the student-loan repayment aggregate and gov_balance is never
\* read; for every other reform the value is the difference of gov_balance and
\* the repayment aggregate is never read.
C7_AggregateByReformId ==
    "budgetary" \in called =>
        LET used == IF args.reform_id = "freeze_student_loan_thresholds"
                    THEN "student_loan_repayment" ELSE "gov_balance"
        IN /\ \A r \in sim_reads : r.variable = used
           /\ \A i \in 1..Len(bud_results) :
                 /\ bud_results[i].value.den = Billion
                 /\ bud_results[i].value.num
                       = AggregateDiff(used, bud_results[i].year)
           /\ \A i \in 1..Len(years), sm \in {"baseline", "reformed"} :
                 [sim |-> sm, variable |-> used, period |-> years[i]]
                    \in sim_reads

\* a student-loan-threshold reform whose two aggregates are both available
\* and differ, reported with the repayment difference
C7_Witness ==
    /\ "budgetary" \in called
    /\ args.reform_id = "freeze_student_loan_thresholds"
    /\ Len(bud_results) > 0
    /\ AggregateDiff("gov_balance", years[1])
          # AggregateDiff("student_loan_repayment", years[1])
    /\ bud_results[1].value.num
          = AggregateDiff("student_loan_repayment", years[1])

\* C8: exactly one row per entry of the years list, in list order, with
\* value (reform aggregate - baseline aggregate) / 1e9 for that year and
\* reform_id, reform_name and year copied unchanged.
C8_BudgetRows ==
    "budgetary" \in called =>
        /\ Len(bud_results) = Len(years)
        /\ \A i \in 1..Len(years) :
              /\ bud_results[i].year = years[i]
              /\ bud_results[i].reform_id = args.reform_id
              /\ bud_results[i].reform_name = args.reform_name
              /\ bud_results[i].value
                    = [num |-> AggregateDiff(BudgetVariable(args.reform_id),
                                             years[i]),
                       den |-> Billion]

\* two configured years in descending order with different nonzero impacts
C8_Witness ==
    /\ "budgetary" \in called
    /\ years = <<2027, 2026>>
    /\ Len(bud_results) = 2
    /\ bud_results[1].year = 2027
    /\ bud_results[1].value.num # 0
    /\ bud_results[1].value.num # bud_results[2].value.num

-----------------------------------------------------------------------------
(* DemographicConstituencyCalculator *)

\* one household of the demographic calculator: number of children, marital
\* status and its weight in every geography
DemoUnits(n_geo) ==
    [num_children : {0, 4, 5},
     is_married : BOOLEAN,
     weight : [1..n_geo -> {0, 2}]]

\* row i of the geography reference table (code, name)
ConstituencyRow(i) == [code |-> 14000000 + i, name |-> <<"constituency", i>>]

\* the simulation arrays and geography data built from a list of households
DemoInputs(hh, n_geo) ==
    [baseline_income |-> [h \in 1..Len(hh) |-> 100 * h],
     reform_income |-> [h \in 1..Len(hh) |-> 100 * h + 10],
     num_children |-> [h \in 1..Len(hh) |-> hh[h].num_children],
     is_married |-> [h \in 1..Len(hh) |-> hh[h].is_married],
     constituency_weights |->
        [g \in 1..n_geo |-> [h \in 1..Len(hh) |-> hh[h].weight[g]]],
     constituency_df |-> [g \in 1..n_geo |-> ConstituencyRow(g)]]

\* f"{n_children}+" if n_children == 4 else str(n_children)
ChildrenLabel(n_children) ==
    IF n_children = 4 THEN "4+"
    ELSE <<"0", "1", "2", "3">>[n_children + 1]

NumChildrenUncapped(num_children) == num_children

\* np.minimum(num_children, 4).astype(int)
NumChildrenCapped(num_children) ==
    [h \in 1..Len(num_children) |->
        IF num_children[h] < 4 THEN num_children[h] ELSE 4]

\* the rows appended for one (geography, n_children, married) combination
DemoCell(a, in, const_idx, n_children, married) ==
    LET capped == NumChildrenCapped(in.num_children)
        weights == in.constituency_weights[const_idx]
        nh == Len(in.num_children)
        mask == [h \in 1..nh |->
                    IF capped[h] = n_children /\ in.is_married[h] = married
                    THEN 1 ELSE 0]
        masked_weights == [h \in 1..nh |-> weights[h] * mask[h]]
        total_weight == SumSeq(masked_weights)
        change_sum ==
            SumSeq([h \in 1..nh |->
                (in.reform_income[h] - in.baseline_income[h])
                    * masked_weights[h]])
        baseline_sum ==
            SumSeq([h \in 1..nh |-> in.baseline_income[h] * masked_weights[h]])
    IN IF SumSeq(mask) = 0 THEN <<>>
       ELSE IF total_weight = 0 THEN <<>>
       ELSE << [reform_id |-> a.reform_id,
                year |-> a.year,
                constituency_code |-> in.constituency_df[const_idx].code,
                constituency_name |-> in.constituency_df[const_idx].name,
                num_children |-> ChildrenLabel(n_children),
                is_married |-> married,
                average_gain |-> Rat(change_sum, total_weight),
                \* avg_change / avg_baseline * 100 if avg_baseline > 0 else 0
                relative_change |->
                    IF (baseline_sum > 0 /\ total_weight > 0)
                          \/ (baseline_sum < 0 /\ total_weight < 0)
                    THEN Rat(change_sum * 100, baseline_sum)
                    ELSE Zero,
                household_count |-> total_weight] >>

\* for married in [True, False]
DemoMarriedLoop(a, in, const_idx, n_children) ==
    DemoCell(a, in, const_idx, n_children, TRUE)
        \o DemoCell(a, in, const_idx, n_children, FALSE)

\* for n_children in range(5), from n_children on
RECURSIVE DemoChildrenLoop(_, _, _, _)
DemoChildrenLoop(a, in, const_idx, n_children) ==
    IF n_children > 4 THEN <<>>
    ELSE DemoMarriedLoop(a, in, const_idx, n_children)
            \o DemoChildrenLoop(a, in, const_idx, n_children + 1)

\* for const_idx in range(len(constituency_df)), from const_idx on
RECURSIVE DemoGeoLoop(_, _, _)
DemoGeoLoop(a, in, const_idx) ==
    IF const_idx > Len(in.constituency_df) THEN <<>>
    ELSE DemoChildrenLoop(a, in, const_idx, 0)
            \o DemoGeoLoop(a, in, const_idx + 1)

\* DemographicConstituencyCalculator.calculate
DemoCalculate(a, in) == DemoGeoLoop(a, in, 1)

DemoInit ==
    /\ called = {}
    /\ args \in CallArgs
    /\ \E n_geo \in 1..MaxGeo :
          \E hh \in SeqsUpTo(DemoUnits(n_geo), MaxUnits) :
              demo_in = DemoInputs(hh, n_geo)
    /\ demo_results = <<>>
    /\ DecileIdle /\ ScatterIdle /\ BudIdle /\ PipeIdle /\ OtherIdle /\ MetIdle

DemographicCalculate ==
    /\ "demographic_constituency" \notin called
    /\ demo_results' = DemoCalculate(args, demo_in)
    /\ called' = called \cup {"demographic_constituency"}
    /\ UNCHANGED <<other_vars,
                   args, demo_in, decile_vars, scatter_vars, bud_vars,
                   pipe_vars,
                   met_vars>>

DemoNext == DemographicCalculate

DemoSpec == DemoInit /\ [][DemoNext]_vars

-----------------------------------------------------------------------------
(* Properties of the demographic constituency calculator *)

\* the bucket label of a household with c children
BucketOf(c) == IF c >= 4 THEN "4+" ELSE <<"0", "1", "2", "3">>[c + 1]

\* the households of a (children bucket, married) combination
HouseholdsIn(label, married) ==
    {h \in 1..Len(demo_in.num_children) :
        /\ BucketOf(demo_in.num_children[h]) = label
        /\ demo_in.is_married[h] = married}

\* the summed weight of a combination in geography g
CombinationWeight(g, label, married) ==
    SumOver(HouseholdsIn(label, married), demo_in.constituency_weights[g])

DemoRowsOf(g, label, married) ==
    {k \in 1..Len(demo_results) :
        /\ demo_results[k].constituency_code = demo_in.constituency_df[g].code
        /\ demo_results[k].num_children = label
        /\ demo_results[k].is_married = married}

\* C9: a row is emitted for a (geography, children bucket, married)
\* combination exactly when the geography-specific weights of its households
\* sum to a nonzero total; households with 4 or more children fall in the
\* bucket "4+", and household_count is that summed weight.
C9_DemographicRows ==
    "demographic_constituency" \in called =>
        /\ \A g \in 1..Len(demo_in.constituency_df),
              label \in {"0", "1", "2", "3", "4+"}, married \in BOOLEAN :
              LET tw == CombinationWeight(g, label, married)
                  R == DemoRowsOf(g, label, married)
              IN /\ (tw # 0) => Cardinality(R) = 1
                 /\ (tw = 0) => R = {}
                 /\ \A k \in R : demo_results[k].household_count = tw
        /\ \A k \in 1..Len(demo_results) :
              /\ demo_results[k].num_children \in {"0", "1", "2", "3", "4+"}
              /\ \E g \in 1..Len(demo_in.constituency_df) :
                    demo_results[k].constituency_code
                       = demo_in.constituency_df[g].code

\* a single geography whose households are all unmarried with 5 children
\* yields exactly one row: "4+", False, with the summed weight
C9_Witness ==
    /\ "demographic_constituency" \in called
    /\ Len(demo_in.constituency_df) = 1
    /\ Len(demo_in.num_children) = 2
    /\ \A h \in 1..2 :
          /\ demo_in.num_children[h] = 5
          /\ ~demo_in.is_married[h]
          /\ demo_in.constituency_weights[1][h] = 2
    /\ Len(demo_results) = 1
    /\ demo_results[1].num_children = "4+"
    /\ demo_results[1].is_married = FALSE
    /\ demo_results[1].household_count = 4

-----------------------------------------------------------------------------
(* MetricsCalculator.  The simulations are represented by the arrays they   *)
(* return; a variable the engine cannot compute makes calculate() raise.    *)
(* A floating point quotient with a zero denominator is the value NaN.      *)

\* the result of a numpy division by zero (nan or inf): not a number
NaN == [num |-> 0, den |-> 0]

IsNaN(a) == a.den = 0

\* numpy n / d
FloatDiv(n, d) == IF d = 0 THEN NaN ELSE Rat(n, d)

\* a - b on floats
FloatSub(a, b) ==
    IF IsNaN(a) \/ IsNaN(b) THEN NaN
    ELSE [num |-> a.num * b.den - b.num * a.den, den |-> a.den * b.den]

\* a / b on floats
FloatQuot(a, b) ==
    IF IsNaN(a) \/ IsNaN(b) \/ b.num = 0 THEN NaN
    ELSE Rat(a.num * b.den, a.den * b.num)

\* a > 0 on floats (False for NaN)
FloatPositive(a) == ~IsNaN(a) /\ a.num > 0

\* the households the simulations may hold
MetricsHouseholds ==
    { [baseline_income |-> 10000, reform_income |-> 10001, decile |-> 1,
       count_people |-> 2, weight |-> 1,
       baseline_equiv |-> 2, reformed_equiv |-> 2],
      [baseline_income |-> 20000, reform_income |-> 20003, decile |-> 5,
       count_people |-> 1, weight |-> 1,
       baseline_equiv |-> 1, reformed_equiv |-> 2],
      [baseline_income |-> 0, reform_income |-> 1, decile |-> 1,
       count_people |-> 1, weight |-> 2,
       baseline_equiv |-> 0, reformed_equiv |-> 0],
      [baseline_income |-> 10000, reform_income |-> 9000, decile |-> 0,
       count_people |-> 3, weight |-> 1,
       baseline_equiv |-> 2, reformed_equiv |-> 1],
      [baseline_income |-> -10000, reform_income |-> -10001, decile |-> -1,
       count_people |-> 1, weight |-> 1,
       baseline_equiv |-> -1, reformed_equiv |-> 1] }

\* the persons the simulations may hold
MetricsPersons ==
    { [baseline_poverty |-> TRUE, reformed_poverty |-> FALSE, weight |-> 1],
      [baseline_poverty |-> FALSE, reformed_poverty |-> TRUE, weight |-> 2],
      [baseline_poverty |-> TRUE, reformed_poverty |-> TRUE, weight |-> 3] }

\* the variables the engine may be unable to compute
MissingSets ==
    { {}, {"household_income_decile"}, {"household_count_people"},
      {"equiv_household_net_income"}, {"in_poverty_bhc"} }

\* the calculate() requests a calculator makes in one call, in code order
Requests(calc, reform_id) ==
    CASE calc = "budgetary" ->
            << <<"baseline", BudgetVariable(reform_id)>>,
               <<"reformed", BudgetVariable(reform_id)>> >>
      [] calc = "distributional" ->
            << <<"baseline", "household_net_income">>,
               <<"reformed", "household_net_income">>,
               <<"baseline", "household_income_decile">>,
               <<"baseline", "household_weight">> >>
      [] calc = "winners_losers" -> << >>
      [] calc = "metrics" ->
            << <<"baseline", "household_net_income">>,
               <<"reformed", "household_net_income">>,
               <<"baseline", "household_income_decile">>,
               <<"baseline", "household_count_people">>,
               <<"baseline", "household_weight">>,
               <<"baseline", "equiv_household_net_income">>,
               <<"reformed", "equiv_household_net_income">>,
               <<"baseline", "household_count_people">>,
               <<"baseline", "household_weight">>,
               <<"baseline", "in_poverty_bhc">>,
               <<"reformed", "in_poverty_bhc">>,
               <<"baseline", "person_weight">> >>
      [] calc = "income_curve" ->
            << <<"baseline_sim", "household_net_income">>,
               <<"reform_sim", "household_net_income">> >>
      [] calc = "household_scatter" ->
            << <<"baseline", "household_net_income">>,
               <<"reformed", "household_net_income">>,
               <<"baseline", "household_weight">>,
               <<"baseline", "household_id">> >>
      [] calc = "_calculate_constituency" -> << >>
      [] calc = "constituency" ->
            << <<"baseline", "household_net_income">>,
               <<"reformed", "household_net_income">> >>
      [] calc = "demographic_constituency" ->
            << <<"baseline", "household_net_income">>,
               <<"reformed", "household_net_income">>,
               <<"baseline", "num_children">>,
               <<"baseline", "is_married">> >>

\* the requests of a call for the variables vs, as the simulations see them
SimReads(calc, a, vs) ==
    { [sim |-> Requests(calc, a.reform_id)[k][1],
       variable |-> Requests(calc, a.reform_id)[k][2],
       period |-> a.year] :
        k \in {j \in 1..Len(Requests(calc, a.reform_id)) :
                  Requests(calc, a.reform_id)[j][2] \in vs} }

\* the columns of decile_df before the filter, one row per household
DecileColumns(hs) ==
    [i \in 1..Len(hs) |->
        [household_income_decile |-> hs[i].decile,
         baseline_income |-> hs[i].baseline_income,
         reform_income |-> hs[i].reform_income,
         income_change |-> hs[i].reform_income - hs[i].baseline_income,
         household_weight |-> hs[i].weight]]

DecileTableUnfiltered(hs) == DecileColumns(hs)

\* decile_df = decile_df[decile_df["household_income_decile"] >= 1]
DecileTable(hs) ==
    SelectSeq(DecileColumns(hs), LAMBDA u : u.household_income_decile >= 1)

\* the variables DistributionalImpactCalculator.calculate requests
DistVariables ==
    {"household_net_income", "household_income_decile", "household_weight"}

\* np.maximum(baseline_income.values, 1)
CappedBaseline(h) == IF h.baseline_income > 1 THEN h.baseline_income ELSE 1

Abs(n) == IF n < 0 THEN -n ELSE n

\* the literal 0.0001 of the comparison
ChangeThreshold == [num |-> 1, den |-> 10000]

ExceedsBelow(h, t) ==
    Abs(h.reform_income - h.baseline_income) * t.den
        < t.num * CappedBaseline(h)

\* np.abs(income_change.values / capped_baseline) > t for a threshold t
Exceeds(h, t) ==
    Abs(h.reform_income - h.baseline_income) * t.den
        > t.num * CappedBaseline(h)

IncomeChangedAtOrAbove(h) ==
    Abs(h.reform_income - h.baseline_income) * 10000 >= CappedBaseline(h)

\* income_changed = np.abs(income_change_pct) > 0.0001
IncomeChanged(h) == Exceeds(h, ChangeThreshold)

\* household_decile.values >= 1
ValidDecile(h) == h.decile >= 1

\* weighted_people[mask].sum() for a boolean array mask
WeightedPeople(hs, mask) ==
    SumSeq([i \in 1..Len(hs) |->
               IF mask[i] THEN hs[i].count_people * hs[i].weight ELSE 0])

\* percent_affected for a boolean array income_changed
AffectedShare(hs, income_changed) ==
    LET valid_deciles == [i \in 1..Len(hs) |-> ValidDecile(hs[i])]
        people_affected ==
            WeightedPeople(hs, [i \in 1..Len(hs) |->
                                   income_changed[i] /\ valid_deciles[i]])
        total_people == WeightedPeople(hs, valid_deciles)
    IN IF total_people > 0 THEN Rat(100 * people_affected, total_people)
       ELSE Zero

\* percent_affected
PercentAffected(hs) ==
    AffectedShare(hs, [i \in 1..Len(hs) |-> IncomeChanged(hs[i])])

EquivValuesClampedAtOne(hs, arm) ==
    [i \in 1..Len(hs) |->
        LET x == IF arm = "baseline" THEN hs[i].baseline_equiv
                 ELSE hs[i].reformed_equiv
        IN  IF x < 1 THEN 1 ELSE x]

\* np.maximum(<arm>_equiv.values, 0)
EquivValues(hs, arm) ==
    [i \in 1..Len(hs) |->
        LET x == IF arm = "baseline" THEN hs[i].baseline_equiv
                 ELSE hs[i].reformed_equiv
        IN  IF x < 0 THEN 0 ELSE x]

\* adjusted_weights = hh_weight.values * hh_count.values
AdjustedWeights(hs) ==
    [i \in 1..Len(hs) |-> hs[i].weight * hs[i].count_people]

\* MicroSeries(values, weights=adjusted_weights).gini(): the weighted Gini
\* coefficient.  The library sorts by value and divides
\* sum(cumxw[1:] * cumw[:-1] - cumxw[:-1] * cumw[1:]) by cumxw[-1] * cumw[-1];
\* that sum is the sum of w_i * w_j * |x_i - x_j| over the pairs i < j, and
\* cumxw[-1], cumw[-1] are the weighted total and the total weight.
Gini(xs, ws) ==
    LET n == Len(xs)
        pair_sum ==
            SumSeq([i \in 1..n |->
                SumSeq([j \in 1..n |->
                    IF j > i THEN ws[i] * ws[j] * Abs(xs[i] - xs[j])
                    ELSE 0])])
        total == SumSeq([i \in 1..n |-> xs[i] * ws[i]])
    IN  FloatDiv(pair_sum, total * SumSeq(ws))

BaselineGini(hs) == Gini(EquivValues(hs, "baseline"), AdjustedWeights(hs))

ReformedGini(hs) == Gini(EquivValues(hs, "reformed"), AdjustedWeights(hs))

\* gini_change = (reformed_gini - baseline_gini) / baseline_gini
GiniChange(baseline_gini, reformed_gini) ==
    FloatQuot(FloatSub(reformed_gini, baseline_gini), baseline_gini)

\* the Gini block of calculate on the households of the simulations
GiniChangeOf(hs) == GiniChange(BaselineGini(hs), ReformedGini(hs))

\* person_weight[poverty].sum() for a boolean array poverty
PoorWeight(ps, poverty) ==
    SumSeq([i \in 1..Len(ps) |-> IF poverty[i] THEN ps[i].weight ELSE 0])

\* person_weight.sum()
PersonWeight(ps) == SumSeq([i \in 1..Len(ps) |-> ps[i].weight])

\* (person_weight[poverty].sum() / person_weight.sum()) * 100
PovertyRate(ps, poverty) ==
    FloatDiv(100 * PoorWeight(ps, poverty), PersonWeight(ps))

\* baseline_rate
BaselineRate(ps) ==
    PovertyRate(ps, [i \in 1..Len(ps) |-> ps[i].baseline_poverty])

\* reformed_rate
ReformedRate(ps) ==
    PovertyRate(ps, [i \in 1..Len(ps) |-> ps[i].reformed_poverty])

\* poverty_pp
PovertyPP(ps) == FloatSub(ReformedRate(ps), BaselineRate(ps))

\* poverty_pct
PovertyPct(ps) ==
    IF FloatPositive(BaselineRate(ps))
    THEN RatScale(100, FloatQuot(PovertyPP(ps), BaselineRate(ps)))
    ELSE Zero

\* the variables requested by each part of MetricsCalculator.calculate
PartVariables(part) ==
    CASE part = "people_affected" ->
            {"household_net_income", "household_income_decile",
             "household_count_people", "household_weight"}
      [] part = "gini_change" ->
            {"equiv_household_net_income", "household_count_people",
             "household_weight"}
      [] part = "poverty_change" -> {"in_poverty_bhc", "person_weight"}

\* the exception a part raises when the engine lacks one of its variables
MetricsPartRaises(part, missing) ==
    IF PartVariables(part) \cap missing # {} THEN "VariableNotFoundError"
    ELSE "none"

\* the row MetricsCalculator.calculate returns
MetricsRow(a, part) ==
    [reform_id |-> a.reform_id,
     reform_name |-> a.reform_name,
     year |-> a.year,
     people_affected |-> part.people_affected,
     gini_change |-> part.gini_change,
     poverty_change_pp |-> part.poverty_change_pp,
     poverty_change_pct |-> part.poverty_change_pct]

MetInit ==
    /\ called = {}
    /\ args \in CallArgs
    /\ met_in \in
          { [households |-> hs, persons |-> ps, missing |-> ms] :
                hs \in SeqsUpTo(MetricsHouseholds, MaxUnits),
                ps \in SeqsUpTo(MetricsPersons, MaxUnits),
                ms \in MissingSets }
    /\ met_pc = "distributional"
    /\ met_part = [people_affected |-> "unset", gini_change |-> "unset",
                   poverty_change_pp |-> "unset",
                   poverty_change_pct |-> "unset"]
    /\ met_results = <<>>
    /\ met_raised = "none"
    /\ DecileIdle /\ ScatterIdle /\ BudIdle /\ DemoIdle /\ PipeIdle /\ OtherIdle

\* process: DistributionalImpactCalculator.calculate on the two simulations,
\* which comes before the metrics calculator in the loop body
DistributionalCalculate ==
    /\ met_pc = "distributional"
    /\ sim_reads' = sim_reads \cup SimReads("distributional", args,
                                             DistVariables)
    /\ IF DistVariables \cap met_in.missing # {}
       THEN /\ met_pc' = "aborted"
            /\ UNCHANGED <<called, decile_df, dist_results>>
       ELSE /\ decile_df' = DecileTable(met_in.households)
            /\ dist_results' =
                  DistCalculateFromDataframe(args,
                                             DecileTable(met_in.households))
            /\ called' = called \cup {"distributional"}
            /\ met_pc' = "people_affected"
    /\ UNCHANGED <<other_vars, args, wl_results, met_in, met_part, met_results,
                   met_raised, years, baseline, reformed, bud_results,
                   scatter_vars, demo_vars, pipe_vars>>

\* calculate: the people affected block
MetricsPeopleAffected ==
    /\ met_pc = "people_affected"
    /\ IF MetricsPartRaises("people_affected", met_in.missing) # "none"
       THEN /\ met_raised' =
                  MetricsPartRaises("people_affected", met_in.missing)
            /\ met_pc' = "raised"
            /\ UNCHANGED met_part
       ELSE /\ met_part' =
                  [met_part EXCEPT
                      !.people_affected = PercentAffected(met_in.households)]
            /\ met_pc' = "gini_change"
            /\ UNCHANGED met_raised
    /\ sim_reads' = sim_reads \cup SimReads("metrics", args,
                                             PartVariables("people_affected"))
    /\ UNCHANGED <<other_vars,
                   common_vars, met_in, met_results, decile_vars, years,
                   baseline, reformed, bud_results, scatter_vars, demo_vars,
                   pipe_vars>>

\* calculate: the Gini change block
MetricsGiniChange ==
    /\ met_pc = "gini_change"
    /\ IF MetricsPartRaises("gini_change", met_in.missing) # "none"
       THEN /\ met_raised' = MetricsPartRaises("gini_change", met_in.missing)
            /\ met_pc' = "raised"
            /\ UNCHANGED met_part
       ELSE /\ met_part' =
                  [met_part EXCEPT
                      !.gini_change = GiniChangeOf(met_in.households)]
            /\ met_pc' = "poverty_change"
            /\ UNCHANGED met_raised
    /\ sim_reads' = sim_reads \cup SimReads("metrics", args,
                                             PartVariables("gini_change"))
    /\ UNCHANGED <<other_vars,
                   common_vars, met_in, met_results, decile_vars, years,
                   baseline, reformed, bud_results, scatter_vars, demo_vars,
                   pipe_vars>>

\* calculate: the poverty change block
MetricsPovertyChange ==
    /\ met_pc = "poverty_change"
    /\ IF MetricsPartRaises("poverty_change", met_in.missing) # "none"
       THEN /\ met_raised' =
                  MetricsPartRaises("poverty_change", met_in.missing)
            /\ met_pc' = "raised"
            /\ UNCHANGED met_part
       ELSE /\ met_part' =
                  [met_part EXCEPT
                      !.poverty_change_pp = PovertyPP(met_in.persons),
                      !.poverty_change_pct = PovertyPct(met_in.persons)]
            /\ met_pc' = "return"
            /\ UNCHANGED met_raised
    /\ sim_reads' = sim_reads \cup SimReads("metrics", args,
                                             PartVariables("poverty_change"))
    /\ UNCHANGED <<other_vars,
                   common_vars, met_in, met_results, decile_vars, years,
                   baseline, reformed, bud_results, scatter_vars, demo_vars,
                   pipe_vars>>

\* calculate: the return statement
MetricsReturn ==
    /\ met_pc = "return"
    /\ met_results' = <<MetricsRow(args, met_part)>>
    /\ met_pc' = "returned"
    /\ called' = called \cup {"metrics"}
    /\ UNCHANGED <<other_vars, args, met_in, met_part, met_raised, decile_vars,
                   scatter_vars, bud_vars, demo_vars, pipe_vars>>

MetNext ==
    \/ DistributionalCalculate
    \/ MetricsPeopleAffected
    \/ MetricsGiniChange
    \/ MetricsPovertyChange
    \/ MetricsReturn

MetSpec == MetInit /\ [][MetNext]_vars

-----------------------------------------------------------------------------
(* Properties of the metrics calculator *)

\* the sub-metrics whose variables the engine can compute
ComputableParts ==
    {part \in {"people_affected", "gini_change", "poverty_change"} :
        PartVariables(part) \cap met_in.missing = {}}

\* C12: a failure while one of the three sub-metrics is computed does not
\* prevent the other two from being computed and reported: once calculate
\* has ended, by a return or by an exception, a row is returned that holds
\* every sub-metric the engine was able to compute.
C12_SubMetricsIndependent ==
    met_pc \in {"returned", "raised"} =>
        /\ Len(met_results) = 1
        /\ ("people_affected" \in ComputableParts) =>
              met_results[1].people_affected
                  = PercentAffected(met_in.households)
        /\ ("gini_change" \in ComputableParts) =>
              met_results[1].gini_change
                  = GiniChangeOf(met_in.households)
        /\ ("poverty_change" \in ComputableParts) =>
              /\ met_results[1].poverty_change_pp = PovertyPP(met_in.persons)
              /\ met_results[1].poverty_change_pct
                    = PovertyPct(met_in.persons)

\* C13: a degenerate denominator is handled locally by reporting 0 and
\* never gives an undefined value: in the row of the metrics calculator the
\* share of people affected is 0 when the classified population has no
\* weight, the poverty change in points and in percent are 0 when the total
\* person weight is zero, the poverty change in percent is 0 when the
\* baseline poverty rate is zero, and none of the three is NaN.
C13_DegenerateDenominators ==
    met_pc = "returned" =>
        LET row == met_results[1]
            hs == met_in.households
            ps == met_in.persons
            total_people ==
                WeightedPeople(hs, [i \in 1..Len(hs) |-> ValidDecile(hs[i])])
        IN /\ ~IsNaN(row.people_affected)
           /\ ~IsNaN(row.poverty_change_pp)
           /\ ~IsNaN(row.poverty_change_pct)
           /\ (total_people = 0) => row.people_affected = Zero
           /\ (PersonWeight(ps) = 0) =>
                 /\ row.poverty_change_pp = Zero
                 /\ row.poverty_change_pct = Zero
           /\ (PersonWeight(ps) > 0
                 /\ PoorWeight(ps, [i \in 1..Len(ps) |->
                                      ps[i].baseline_poverty]) = 0) =>
                 row.poverty_change_pct = Zero

\* the eight calculators
Calculators ==
    {"budgetary", "distributional", "winners_losers", "metrics",
     "income_curve", "household_scatter", "constituency",
     "demographic_constituency"}

\* the variables that give the grouping and the weighting of the units
GroupingVariables ==
    {"household_income_decile", "household_weight", "person_weight",
     "household_count_people", "household_id", "num_children", "is_married"}

\* income, equivalised income, the poverty flag and the budgetary aggregates
OutcomeVariables ==
    {"household_net_income", "equiv_household_net_income", "in_poverty_bhc",
     "gov_balance", "student_loan_repayment"}

\* C15: no request for a grouping or weighting variable (decile, household
\* and person weight, person count, household id, demographic attributes)
\* goes to the reformed simulation; the reformed simulation is asked for
\* income, equivalised income, the poverty flag and the budgetary aggregate
\* only.  This holds for the requests the distributional and the metrics
\* calculator have made and for the requests of each of the eight
\* calculators; and the shared decile table holds exactly the units whose
\* decile is at least 1, in their order.
C15_BaselineGrouping ==
    /\ \A rd \in sim_reads :
          /\ rd.variable \in GroupingVariables => rd.sim = "baseline"
          /\ rd.sim = "reformed" => rd.variable \in OutcomeVariables
    /\ \A calc \in Calculators :
          \A id \in {"scottish_threshold_freeze",
                     "freeze_student_loan_thresholds"} :
             \A k \in 1..Len(Requests(calc, id)) :
                /\ Requests(calc, id)[k][2] \in GroupingVariables =>
                      Requests(calc, id)[k][1] = "baseline"
                /\ Requests(calc, id)[k][1] \in {"reformed", "reform_sim"} =>
                      Requests(calc, id)[k][2] \in OutcomeVariables
    /\ ("distributional" \in called) =>
          /\ \A i \in 1..Len(decile_df) :
                decile_df[i].household_income_decile >= 1
          /\ Len(decile_df) =
                Cardinality({i \in 1..Len(met_in.households) :
                                met_in.households[i].decile >= 1})
          /\ decile_df = SelectSeq(DecileColumns(met_in.households),
                                   LAMBDA u : u.household_income_decile > 0)

\* both calculators have returned for a unit of decile 0 followed by a unit
\* of decile 1: the table holds the second unit only, and the poverty flag
\* has been read from the reformed simulation
C15_Witness ==
    /\ met_pc = "returned"
    /\ Len(met_in.households) = 2
    /\ met_in.households[1].decile = 0
    /\ met_in.households[2].decile = 1
    /\ Len(decile_df) = 1
    /\ decile_df[1].baseline_income = met_in.households[2].baseline_income
    /\ [sim |-> "reformed", variable |-> "in_poverty_bhc",
        period |-> args.year] \in sim_reads
    /\ [sim |-> "baseline", variable |-> "household_income_decile",
        period |-> args.year] \in sim_reads

\* the households with a decile of at least 1
Classified(hs) == {i \in 1..Len(hs) : hs[i].decile >= 1}

\* the classified households whose income changes, in absolute value, by
\* strictly more than 0.01% of max(baseline_income, 1)
AffectedSet(hs) ==
    {i \in Classified(hs) :
        LET cap == IF hs[i].baseline_income >= 1 THEN hs[i].baseline_income
                   ELSE 1
            change == hs[i].reform_income - hs[i].baseline_income
        IN (IF change >= 0 THEN change ELSE -change) * 10000 > cap}

\* person-count times weight, per household
PeopleOf(hs) == [i \in 1..Len(hs) |-> hs[i].count_people * hs[i].weight]

\* C20: the row of the metrics calculator reports people_affected as
\* 100 x (sum of person-count x weight over the classified households whose
\* income changes by strictly more than 0.01% of max(baseline_income, 1))
\* / (sum of person-count x weight over the classified households), and as
\* 0 when that denominator is zero; a household exactly at the threshold or
\* with a decile below 1 adds nothing to the numerator.
C20_PeopleAffected ==
    met_pc = "returned" =>
        LET hs == met_in.households
            people_affected == SumOver(AffectedSet(hs), PeopleOf(hs))
            total_people == SumOver(Classified(hs), PeopleOf(hs))
            row == met_results[1]
        IN /\ total_people = 0 => row.people_affected = Zero
           /\ total_people > 0 =>
                 /\ row.people_affected.den > 0
                 /\ row.people_affected.num * total_people
                       = 100 * people_affected * row.people_affected.den
           /\ (\A i \in 1..Len(hs) :
                  \/ hs[i].decile < 1
                  \/ Abs(hs[i].reform_income - hs[i].baseline_income) * 10000
                        = hs[i].baseline_income) =>
                 row.people_affected.num = 0

\* a household of two persons exactly at the threshold (10000 -> 10001) and
\* an affected household of one person: 100 * 1 / 3 is reported
C20_Witness ==
    /\ met_pc = "returned"
    /\ Len(met_in.households) = 2
    /\ met_in.households[1].baseline_income = 10000
    /\ met_in.households[1].reform_income = 10001
    /\ met_in.households[1].decile = 1
    /\ met_in.households[2].baseline_income = 20000
    /\ met_results[1].people_affected = [num |-> 100, den |-> 3]

\* relative-change thresholds around the one of the code
Thresholds ==
    { [num |-> 0, den |-> 1], [num |-> 1, den |-> 20000], ChangeThreshold,
      [num |-> 3, den |-> 20000], [num |-> 1, den |-> 1000],
      [num |-> 1, den |-> 1] }

\* the affected share of the same arrays when the threshold is t
ShareAt(hs, t) == AffectedShare(hs, [i \in 1..Len(hs) |-> Exceeds(hs[i], t)])

\* C21: for the same baseline and reform arrays a larger relative-change
\* threshold never gives a larger affected share than a smaller one; the
\* share the calculator reports is the one at its own threshold 0.0001.
C21_ThresholdMonotonic ==
    met_pc = "returned" =>
        /\ met_results[1].people_affected
              = ShareAt(met_in.households, ChangeThreshold)
        /\ \A t1, t2 \in Thresholds :
              t1.num * t2.den <= t2.num * t1.den =>
                 ShareAt(met_in.households, t2).num
                       * ShareAt(met_in.households, t1).den
                    <= ShareAt(met_in.households, t1).num
                          * ShareAt(met_in.households, t2).den

\* two classified households whose relative changes are 0.0001 and 0.00015:
\* the share is 100 at half the threshold, 100/3 at the threshold of the
\* code and 0 at ten times the threshold
C21_Witness ==
    /\ met_pc = "returned"
    /\ Len(met_in.households) = 2
    /\ met_in.households[1].reform_income = 10001
    /\ met_in.households[2].reform_income = 20003
    /\ ShareAt(met_in.households, [num |-> 1, den |-> 20000])
          = [num |-> 300, den |-> 3]
    /\ met_results[1].people_affected = [num |-> 100, den |-> 3]
    /\ ShareAt(met_in.households, [num |-> 1, den |-> 1000])
          = [num |-> 0, den |-> 3]

\* the positive constants the incomes are multiplied by
Scales == {2, 3, 5}

\* the households with every baseline and every reform equivalised income
\* multiplied by k
ScaledHouseholds(hs, k) ==
    [i \in 1..Len(hs) |->
        [hs[i] EXCEPT !.baseline_equiv = k * @, !.reformed_equiv = k * @]]

RECURSIVE Gcd(_, _)
Gcd(a, b) == IF b = 0 THEN a ELSE Gcd(b, a % b)

\* a float in lowest terms
Lowest(a) ==
    IF IsNaN(a) THEN NaN
    ELSE LET g == Gcd(Abs(a.num), a.den)
         IN  [num |-> a.num \div g, den |-> a.den \div g]

\* C22: the Gini change of calculate is scale-invariant: with every baseline
\* and every reform equivalised income multiplied by the same positive
\* constant, the Gini block (incomes clamped at 0, weights household weight
\* times person count, (reformed - baseline) / baseline) gives the value it
\* gave for the incomes as they were.
C22_GiniScaleInvariant ==
    met_pc = "returned" =>
        \A k \in Scales :
            Lowest(GiniChangeOf(ScaledHouseholds(met_in.households, k)))
                = Lowest(met_results[1].gini_change)

\* the Gini change is computed as a nonzero number from households one of
\* which has a negative income that the clamp raises to 0
C22_Witness ==
    /\ met_pc = "returned"
    /\ ~IsNaN(met_results[1].gini_change)
    /\ met_results[1].gini_change.num # 0
    /\ \E i \in 1..Len(met_in.households) :
          met_in.households[i].baseline_equiv < 0

\* the baseline person weight of the persons flagged in poverty in an arm
PoorIn(ps, arm) ==
    SumSeq([i \in 1..Len(ps) |->
        IF (IF arm = "baseline" THEN ps[i].baseline_poverty
            ELSE ps[i].reformed_poverty)
        THEN ps[i].weight ELSE 0])

\* no person is in poverty in one arm and out of it in the other
NobodyChanges(ps) ==
    \A i \in 1..Len(ps) : ps[i].baseline_poverty = ps[i].reformed_poverty

IsZero(a) == ~IsNaN(a) /\ a.num = 0

\* the poverty change in points and in percent for a total person weight
\* that is not zero
PovertyFormulas(ps, row) ==
    LET total == PersonWeight(ps)
        poor_b == PoorIn(ps, "baseline")
        poor_r == PoorIn(ps, "reformed")
    IN  /\ ~IsNaN(row.poverty_change_pp)
        /\ RatEq(row.poverty_change_pp, Rat(100 * (poor_r - poor_b), total))
        /\ IF poor_b > 0
           THEN /\ ~IsNaN(row.poverty_change_pct)
                /\ RatEq(row.poverty_change_pct,
                         Rat(100 * (poor_r - poor_b), poor_b))
           ELSE row.poverty_change_pct = Zero

\* C23: poverty_change_pp is the reform poverty rate minus the baseline
\* poverty rate, each rate 100 times the baseline person weight of the
\* persons flagged in poverty in that arm over the total baseline person
\* weight; poverty_change_pct is 100 times the change in points over the
\* baseline rate when that rate is positive and 0 otherwise; and both
\* values are 0 when no person changes poverty status.
C23_PovertyChange ==
    met_pc = "returned" =>
        /\ PersonWeight(met_in.persons) > 0 =>
              PovertyFormulas(met_in.persons, met_results[1])
        /\ PoorIn(met_in.persons, "baseline") = 0 =>
              met_results[1].poverty_change_pct = Zero
        /\ NobodyChanges(met_in.persons) =>
              /\ IsZero(met_results[1].poverty_change_pp)
              /\ IsZero(met_results[1].poverty_change_pct)

\* the part of C23 that the code does satisfy: the formulas, and the zero
\* values for unchanged statuses when the total person weight is positive
C23_PositiveWeight ==
    (met_pc = "returned" /\ PersonWeight(met_in.persons) > 0) =>
        /\ PovertyFormulas(met_in.persons, met_results[1])
        /\ NobodyChanges(met_in.persons) =>
              /\ IsZero(met_results[1].poverty_change_pp)
              /\ IsZero(met_results[1].poverty_change_pct)

-----------------------------------------------------------------------------
(* IncomeCurveCalculator.  The calculator builds one household situation   *)
(* whose "axes" entry varies employment_income over num_points values, so   *)
(* that household_net_income is an array with one element per point.        *)

\* the largest num_points of an IncomeCurveCalculator
MaxPoints == 3

\* the values of max_income
MaxIncomes == {100, 150000}

\* the net incomes the engine may compute
NetIncomes == {0, 1}

\* the scenarios a Simulation may be built with; "default" is no scenario
CurveScenarios == {"default", "baseline_scenario", "reform_scenario"}

LinspaceOpen(stop, num) == [i \in 1..num |-> Rat((i - 1) * stop, num)]

\* np.linspace(0, stop, num): num evenly spaced samples over [0, stop], the
\* single sample 0 when num is 1
Linspace(stop, num) ==
    [i \in 1..num |->
        IF num = 1 THEN Zero ELSE Rat((i - 1) * stop, num - 1)]

\* get_income_range
GetIncomeRange(calc) == Linspace(calc.max_income, calc.num_points)

\* the "axes" entry of get_base_situation
BaseSituation(calc) ==
    [axes |-> [name |-> "employment_income", min |-> 0,
               max |-> calc.max_income, count |-> calc.num_points]]

\* Simulation(scenario=..., situation=...)
CurveSimulation(scenario, situation) ==
    [scenario |-> scenario, situation |-> situation]

\* baseline_sim and reform_sim of calculate
CurveSimulations(calc, baseline_scenario) ==
    [baseline_sim |->
        IF baseline_scenario # "None"
        THEN CurveSimulation(baseline_scenario, BaseSituation(calc))
        ELSE CurveSimulation("default", BaseSituation(calc)),
     reform_sim |-> CurveSimulation("reform_scenario", BaseSituation(calc))]

\* sim.calculate("household_net_income", year): one value per axis point
HouseholdNetIncome(sim, hnet) ==
    SubSeq(hnet[sim.scenario], 1, sim.situation.axes.count)

\* the loop of calculate over range(len(employment_incomes))
CurveRows(a, employment_incomes, baseline_hnet, reform_hnet) ==
    [i \in 1..Len(employment_incomes) |->
        [reform_id |-> a.reform_id, reform_name |-> a.reform_name,
         year |-> a.year, employment_income |-> employment_incomes[i],
         baseline_net_income |-> baseline_hnet[i],
         reform_net_income |-> reform_hnet[i]]]

CurveInit ==
    /\ called = {}
    /\ args \in CallArgs
    /\ curve_calc \in [max_income : MaxIncomes, num_points : 1..MaxPoints]
    /\ curve_in \in
          UNION { [baseline_scenario : {"None", "baseline_scenario"},
                   hnet : [CurveScenarios -> [1..n -> NetIncomes]]] :
                     n \in 1..MaxPoints }
    /\ Len(curve_in.hnet["default"]) = curve_calc.num_points
    /\ curve_sims = <<>>
    /\ curve_results = <<>>
    /\ curve_pc = "start"
    /\ DecileIdle /\ ScatterIdle /\ BudIdle /\ DemoIdle /\ MetIdle /\ PipeIdle
    /\ ConIdle /\ AggIdle /\ RegIdle /\ ValIdle

\* calculate, up to the construction of the two simulations
IncomeCurveSimulate ==
    /\ curve_pc = "start"
    /\ curve_sims' = CurveSimulations(curve_calc, curve_in.baseline_scenario)
    /\ curve_pc' = "simulated"
    /\ UNCHANGED <<calc_vars, pipe_vars, curve_calc, curve_in, curve_results,
                   con_vars, agg_vars, reg_vars, val_vars>>

\* calculate, from get_income_range to the return
IncomeCurveCalculate ==
    /\ curve_pc = "simulated"
    /\ curve_results' =
          CurveRows(args, GetIncomeRange(curve_calc),
                    HouseholdNetIncome(curve_sims.baseline_sim, curve_in.hnet),
                    HouseholdNetIncome(curve_sims.reform_sim, curve_in.hnet))
    /\ curve_pc' = "returned"
    /\ called' = called \cup {"income_curve"}
    /\ UNCHANGED <<args, decile_vars, scatter_vars, bud_vars, demo_vars,
                   met_vars, pipe_vars, curve_calc, curve_in, curve_sims,
                   con_vars, agg_vars, reg_vars, val_vars>>

CurveNext ==
    \/ IncomeCurveSimulate
    \/ IncomeCurveCalculate

CurveSpec == CurveInit /\ [][CurveNext]_vars

\* the scenario the baseline arm of the curve is simulated with
BaselineArm ==
    IF curve_in.baseline_scenario = "None" THEN "default"
    ELSE curve_in.baseline_scenario

\* row i pairs the i-th grid point with the i-th baseline and the i-th
\* reform net income, under the labels of the call
CurvePairing ==
    \A i \in 1..Len(curve_results) :
        /\ curve_results[i].baseline_net_income
              = curve_in.hnet[BaselineArm][i]
        /\ curve_results[i].reform_net_income
              = curve_in.hnet["reform_scenario"][i]
        /\ curve_results[i].reform_id = args.reform_id
        /\ curve_results[i].reform_name = args.reform_name
        /\ curve_results[i].year = args.year

\* the employment incomes are evenly spaced from 0 to max_income inclusive
EvenGrid ==
    LET n == Len(curve_results)
        x(i) == curve_results[i].employment_income
    IN  /\ RatEq(x(1), Zero)
        /\ RatEq(x(n), Rat(curve_calc.max_income, 1))
        /\ \A i \in 1..n :
              (n - 1) * x(i).num = (i - 1) * curve_calc.max_income * x(i).den

\* C24 as stated: calculate returns exactly num_points rows whose employment
\* incomes are the evenly spaced grid from 0 to max_income inclusive, row i
\* pairing grid point i with the i-th baseline and reform net incomes, the
\* baseline arm being simulated with the system defaults when no baseline
\* scenario is given.
C24_GridInclusive ==
    curve_pc = "returned" =>
        /\ Len(curve_results) = curve_calc.num_points
        /\ EvenGrid
        /\ CurvePairing

\* C24, amended: calculate returns exactly num_points rows, row i pairing
\* grid point i with the i-th baseline and reform net incomes (the baseline
\* arm simulated with the system defaults when no baseline scenario is
\* given); with num_points of at least 2 the employment incomes are the
\* evenly spaced grid from 0 to max_income inclusive, and with num_points 1
\* the only row has employment income 0.
C24_IncomeCurve ==
    curve_pc = "returned" =>
        /\ Len(curve_results) = curve_calc.num_points
        /\ CurvePairing
        /\ curve_calc.num_points >= 2 => EvenGrid
        /\ curve_calc.num_points = 1 =>
              RatEq(curve_results[1].employment_income, Zero)

\* a curve of three points returned without a baseline scenario, the
\* baseline and the reform net incomes differing at the middle point
C24_Witness ==
    /\ curve_pc = "returned"
    /\ curve_in.baseline_scenario = "None"
    /\ Len(curve_results) = 3
    /\ curve_results[2].employment_income
          = [num |-> 150000, den |-> 2]
    /\ curve_results[2].baseline_net_income = 0
    /\ curve_results[2].reform_net_income = 1

-----------------------------------------------------------------------------
(* ConstituencyCalculator.  constituency_weights is a matrix with one row   *)
(* per geography and one column per household; constituency_df is the      *)
(* reference table with the code and the name of every geography.          *)

\* the largest number of rows of the geography reference table
MaxConstituencies == 2

\* one household: its incomes and its weight in every geography
ConUnits(n_geo) ==
    [baseline_income : {-100, 200},
     income_change : {0, 10},
     weight : [1..n_geo -> {0, 2}]]

\* the reference tables of n_geo rows: distinct geographies in any order
ConTables(n_geo) ==
    { [g \in 1..n_geo |-> ConstituencyRow(t[g])] :
        t \in { u \in [1..n_geo -> 1..MaxConstituencies] :
                  \A g, h \in 1..n_geo : u[g] = u[h] => g = h } }

\* the arguments of calculate built from a list of households and a table
ConInputs(hh, df) ==
    [baseline_income |-> [h \in 1..Len(hh) |-> hh[h].baseline_income],
     reform_income |->
        [h \in 1..Len(hh) |-> hh[h].baseline_income + hh[h].income_change],
     constituency_weights |->
        [g \in 1..Len(df) |-> [h \in 1..Len(hh) |-> hh[h].weight[g]]],
     constituency_df |-> df]

\* MicroSeries(values, weights=weight).sum()
MicroSum(values, weight) ==
    SumSeq([h \in 1..Len(values) |-> values[h] * weight[h]])

\* MicroSeries(values, weights=weight).count()
MicroCount(weight) == SumSeq(weight)

\* avg_change
ConAvgChange(in, i) ==
    LET weight == in.constituency_weights[i]
    IN  FloatDiv(MicroSum(in.reform_income, weight)
                    - MicroSum(in.baseline_income, weight),
                 MicroCount(weight))

\* avg_baseline
ConAvgBaseline(in, i) ==
    LET weight == in.constituency_weights[i]
    IN  FloatDiv(MicroSum(in.baseline_income, weight), MicroCount(weight))

ConRelChangeNonzeroGuard(in, i) ==
    IF ~IsNaN(ConAvgBaseline(in, i)) /\ ConAvgBaseline(in, i).num # 0
    THEN RatScale(100, FloatQuot(ConAvgChange(in, i), ConAvgBaseline(in, i)))
    ELSE Zero

\* rel_change
ConRelChange(in, i) ==
    IF FloatPositive(ConAvgBaseline(in, i))
    THEN RatScale(100, FloatQuot(ConAvgChange(in, i), ConAvgBaseline(in, i)))
    ELSE Zero

\* calculate_from_values
ConCalculateFromValues(reform_id, year, code, name, gain, change) ==
    [reform_id |-> reform_id, year |-> year,
     constituency_code |-> code, constituency_name |-> name,
     average_gain |-> gain, relative_change |-> change]

\* the loop of calculate over range(len(constituency_df))
ConCalculate(a, in) ==
    [i \in 1..Len(in.constituency_df) |->
        ConCalculateFromValues(a.reform_id, a.year,
                               in.constituency_df[i].code,
                               in.constituency_df[i].name,
                               ConAvgChange(in, i), ConRelChange(in, i))]

ConInit ==
    /\ called = {}
    /\ args \in CallArgs
    /\ \E n_geo \in 0..MaxConstituencies :
          \E hh \in SeqsUpTo(ConUnits(n_geo), MaxUnits),
             df \in ConTables(n_geo) :
                con_in = ConInputs(hh, df)
    /\ con_results = <<>>
    /\ DecileIdle /\ ScatterIdle /\ BudIdle /\ DemoIdle /\ MetIdle /\ PipeIdle
    /\ CurveIdle /\ AggIdle /\ RegIdle /\ ValIdle

\* ConstituencyCalculator.calculate
ConstituencyCalculate ==
    /\ "constituency" \notin called
    /\ con_results' = ConCalculate(args, con_in)
    /\ called' = called \cup {"constituency"}
    /\ UNCHANGED <<args, decile_vars, scatter_vars, bud_vars, demo_vars,
                   met_vars, pipe_vars, curve_vars, con_in, agg_vars,
                   reg_vars, val_vars>>

ConNext == ConstituencyCalculate

ConSpec == ConInit /\ [][ConNext]_vars

\* the sum of w * x over the households under the weights of matrix row i
WeightedUnder(i, x) ==
    SumSeq([h \in 1..Len(x) |-> con_in.constituency_weights[i][h] * x[h]])

\* one row per reference row, in table order, labelled from reference row
\* i, the average gain being the quotient of the weighted income change by
\* the weight under the weights of matrix row i
ConRowsAligned ==
    /\ Len(con_results) = Len(con_in.constituency_df)
    /\ \A i \in 1..Len(con_results) :
          LET w_total == SumSeq(con_in.constituency_weights[i])
              w_change == WeightedUnder(i, con_in.reform_income)
                             - WeightedUnder(i, con_in.baseline_income)
          IN  /\ con_results[i].constituency_code
                    = con_in.constituency_df[i].code
              /\ con_results[i].constituency_name
                    = con_in.constituency_df[i].name
              /\ con_results[i].reform_id = args.reform_id
              /\ con_results[i].year = args.year
              /\ con_results[i].average_gain = FloatDiv(w_change, w_total)

\* relative_change of row i is 100 times the weighted income change over
\* the weighted baseline income
ConQuotient(i) ==
    /\ ~IsNaN(con_results[i].relative_change)
    /\ RatEq(con_results[i].relative_change,
             Rat(100 * (WeightedUnder(i, con_in.reform_income)
                           - WeightedUnder(i, con_in.baseline_income)),
                 WeightedUnder(i, con_in.baseline_income)))

\* C25 as stated: one row per reference row in table order, labelled and
\* weighted by row i, average_gain the weighted mean income change, and
\* relative_change 100 times the average gain over the average baseline
\* income, 0 when the weighted baseline income is zero.
C25_ZeroGuard ==
    "constituency" \in called =>
        /\ ConRowsAligned
        /\ \A i \in 1..Len(con_results) :
              IF WeightedUnder(i, con_in.baseline_income) = 0
              THEN con_results[i].relative_change = Zero
              ELSE ConQuotient(i)

\* C25, amended: one row per reference row in table order, labelled and
\* weighted by row i, average_gain the weighted mean income change, and
\* relative_change 100 times the average gain over the average baseline
\* income when the weighted baseline income is positive, 0 when it is zero
\* or negative.
C25_ConstituencyRows ==
    "constituency" \in called =>
        /\ ConRowsAligned
        /\ \A i \in 1..Len(con_results) :
              IF WeightedUnder(i, con_in.baseline_income) > 0
              THEN ConQuotient(i)
              ELSE con_results[i].relative_change = Zero

\* two geographies listed in the order 2, 1, the first with a positive and
\* the second with a negative weighted baseline income
C25_Witness ==
    /\ "constituency" \in called
    /\ Len(con_results) = 2
    /\ con_results[1].constituency_code = 14000002
    /\ con_results[2].constituency_code = 14000001
    /\ WeightedUnder(1, con_in.baseline_income) > 0
    /\ con_results[1].relative_change.num > 0
    /\ WeightedUnder(2, con_in.baseline_income) < 0
    /\ con_results[2].average_gain.num > 0
    /\ con_results[2].relative_change = Zero

-----------------------------------------------------------------------------
(* DataPipeline.run, ReformProcessor.process and aggregate_results.         *)
(* The rows a calculator returns for one reform and year are represented by *)
(* one row that carries the reform id and the year.                         *)

WeightsFile == "parliamentary_constituency_weights.h5"
ConstituenciesFile == "constituencies_2024.csv"
SfcFile == "sfc_estimates.csv"

\* the Reform objects of the registry, with what to_baseline_scenario() gives
ThresholdFreeze ==
    [id |-> "scottish_threshold_freeze", name |-> "Scottish threshold freeze",
     custom_baseline |-> FALSE]

TwoChildLimit ==
    [id |-> "two_child_limit_removal", name |-> "Two Child Limit removal",
     custom_baseline |-> TRUE]

\* get_scottish_budget_2026_reforms()
ScottishBudget2026Reforms == <<ThresholdFreeze, TwoChildLimit>>

ReformPool == {ThresholdFreeze, TwoChildLimit}

\* the contents sfc_estimates.csv may have
SfcTables ==
    { <<>>,
      << [reform_id |-> "scottish_threshold_freeze", year |-> 2026,
          sfc_value |-> "0.07"] >> }

\* an external call recorded in the trace
Event(op, reform_id, arm, scenario, data) ==
    [op |-> op, reform_id |-> reform_id, arm |-> arm, scenario |-> scenario,
     dataset |-> data]

\* self.reforms = reforms or get_scottish_budget_2026_reforms()
SelfReforms(arg) ==
    IF arg.provided /\ arg.list # <<>> THEN arg.list
    ELSE ScottishBudget2026Reforms

\* reform.to_baseline_scenario() or self.config.get_baseline_scenario()
BaselineScenario(reform, cfg) ==
    IF reform.custom_baseline THEN "reform_baseline"
    ELSE IF cfg.baseline_parameter_changes THEN "global_baseline"
    ELSE "None"

CheckInputDataWeightsOnly(fs) ==
    IF WeightsFile \notin fs THEN "FileNotFoundError" ELSE "none"

\* the exception check_input_data raises for the files on disk, or "none"
CheckInputDataRaises(fs) ==
    IF WeightsFile \notin fs THEN "FileNotFoundError"
    ELSE IF ConstituenciesFile \notin fs THEN "FileNotFoundError"
    ELSE "none"

\* _calculate_constituency raises FileNotFoundError unless both files exist
ConstituencyDataFound(fs) == WeightsFile \in fs /\ ConstituenciesFile \in fs

\* reform.to_baseline_scenario(): a Scenario for a reform that defines a
\* baseline of its own, None otherwise
ToBaselineScenario(reform) ==
    IF reform.custom_baseline THEN "reform_baseline" ELSE "None"

\* the labelled fields of the rows a calculator returns for a reform and year
Row(family, reform, year) ==
    IF family \in {"constituency", "demographic_constituency"}
    THEN [reform_id |-> reform.id, year |-> year]
    ELSE [reform_id |-> reform.id, reform_name |-> reform.name,
          year |-> year]

\* the rows of BudgetaryImpactCalculator.calculate, one per configured year
BudgetaryRows(reform, ys) ==
    [i \in 1..Len(ys) |->
        [reform_id |-> reform.id, reform_name |-> reform.name,
         year |-> ys[i], value |-> <<"impact", reform.id, ys[i]>>]]

\* a calculator call made by process: the simulations passed to it (by the
\* position of their construction in the trace, 0 when none is passed),
\* whether the decile table of the distributional call is passed, the
\* baseline scenario argument ("-" when there is none) and the outcome
Call(calc, reform, year, b, r, df, scenario, outcome) ==
    [calc |-> calc, reform_id |-> reform.id, year |-> year, baseline |-> b,
     reformed |-> r, decile_df |-> df, baseline_scenario |-> scenario,
     outcome |-> outcome]

\* process: the budgetary call and the empty all_* lists before the year loop
StartLists(reform, ys) ==
    [budgetary_impact |-> BudgetaryRows(reform, ys),
     distributional_impact |-> <<>>,
     winners_losers |-> <<>>,
     metrics |-> <<>>,
     income_curve |-> <<>>,
     household_scatter |-> <<>>,
     constituency |-> <<>>,
     demographic_constituency |-> <<>>]

\* process: the five calculators of the loop body before the try block
YearLists(lists, reform, year) ==
    [lists EXCEPT
        !.distributional_impact =
            @ \o <<Row("distributional_impact", reform, year)>>,
        !.winners_losers = @ \o <<Row("winners_losers", reform, year)>>,
        !.metrics = @ \o <<Row("metrics", reform, year)>>,
        !.income_curve = @ \o <<Row("income_curve", reform, year)>>,
        !.household_scatter = @ \o <<Row("household_scatter", reform, year)>>]

\* the calls of the five calculators, in the order of the loop body
YearCalls(reform, year, sm) ==
    << Call("distributional", reform, year, sm.baseline, sm.reformed, FALSE,
            "-", "returned"),
       Call("winners_losers", reform, year, 0, 0, TRUE, "-", "returned"),
       Call("metrics", reform, year, sm.baseline, sm.reformed, FALSE, "-",
            "returned"),
       Call("income_curve", reform, year, 0, 0, FALSE,
            ToBaselineScenario(reform), "returned"),
       Call("household_scatter", reform, year, sm.baseline, sm.reformed,
            FALSE, "-", "returned") >>

TryListsConstituencyOnly(lists, reform, year, fs) ==
    [lists EXCEPT
        !.constituency = @ \o <<Row("constituency", reform, year)>>]

\* process: the try block, which extends both geography lists or neither
TryLists(lists, reform, year, fs) ==
    IF ConstituencyDataFound(fs)
    THEN [lists EXCEPT
            !.constituency = @ \o <<Row("constituency", reform, year)>>,
            !.demographic_constituency =
                @ \o <<Row("demographic_constituency", reform, year)>>]
    ELSE lists

\* the calls of the try block: _calculate_constituency raises before it
\* calls a calculator, or calls the two geography calculators
TryCalls(reform, year, sm, fs) ==
    IF ConstituencyDataFound(fs)
    THEN << Call("_calculate_constituency", reform, year, sm.baseline,
                 sm.reformed, FALSE, "-", "returned"),
            Call("constituency", reform, year, sm.baseline, sm.reformed,
                 FALSE, "-", "returned"),
            Call("demographic_constituency", reform, year, sm.baseline,
                 sm.reformed, FALSE, "-", "returned") >>
    ELSE << Call("_calculate_constituency", reform, year, sm.baseline,
                 sm.reformed, FALSE, "-", "FileNotFoundError") >>

\* the ReformResult process returns
ReformResult(reform, lists) ==
    [reform_id |-> reform.id,
     reform_name |-> reform.name,
     budgetary_impact |-> lists.budgetary_impact,
     distributional_impact |-> lists.distributional_impact,
     winners_losers |-> lists.winners_losers,
     metrics |-> lists.metrics,
     income_curve |-> lists.income_curve,
     household_scatter |-> lists.household_scatter,
     constituency |-> lists.constituency,
     demographic_constituency |-> lists.demographic_constituency]

\* the eight metric families of a ReformResult
Families ==
    {"budgetary_impact", "distributional_impact", "winners_losers", "metrics",
     "income_curve", "household_scatter", "constituency",
     "demographic_constituency"}

RECURSIVE ConcatFamilyReversed(_, _, _)
ConcatFamilyReversed(res, family, i) ==
    IF i > Len(res) THEN <<>>
    ELSE ConcatFamilyReversed(res, family, i + 1)
            \o (IF res[i][family] # <<>> THEN res[i][family] ELSE <<>>)

\* the loop over results for one family, from result i on
RECURSIVE ConcatFamily(_, _, _)
ConcatFamily(res, family, i) ==
    IF i > Len(res) THEN <<>>
    ELSE (IF res[i][family] # <<>> THEN res[i][family] ELSE <<>>)
            \o ConcatFamily(res, family, i + 1)

\* "sfc_value" in sfc_df.columns (a file without data rows has the column)
HasSfcValue(sfc) == sfc = <<>> \/ "sfc_value" \in DOMAIN sfc[1]

\* pd.merge(pe_df, sfc_df[sfc_cols], on=["reform_id", "year"], how="left"),
\* from row i of pe_df on: one row per matching row of sfc_df, and one row
\* with a missing sfc_value when there is no match
RECURSIVE MergeLeft(_, _, _)
MergeLeft(pe_df, sfc, i) ==
    IF i > Len(pe_df) THEN <<>>
    ELSE LET matches ==
                SelectSeq(sfc, LAMBDA r : r.reform_id = pe_df[i].reform_id
                                          /\ r.year = pe_df[i].year)
             keys == [reform_id |-> pe_df[i].reform_id,
                      reform_name |-> pe_df[i].reform_name,
                      year |-> pe_df[i].year,
                      policyengine_value |-> pe_df[i].value]
             row(v) == [reform_id |-> pe_df[i].reform_id,
                        reform_name |-> pe_df[i].reform_name,
                        year |-> pe_df[i].year,
                        policyengine_value |-> pe_df[i].value,
                        sfc_value |-> v]
         IN (IF ~HasSfcValue(sfc)
             THEN [j \in 1..(IF matches = <<>> THEN 1 ELSE Len(matches)) |->
                      keys]
             ELSE IF matches = <<>> THEN <<row("NaN")>>
             ELSE [j \in 1..Len(matches) |-> row(matches[j].sfc_value)])
                \o MergeLeft(pe_df, sfc, i + 1)

\* aggregate_results(results, config): has_config is the truth value of the
\* config argument, fs the files that exist
AggregateResults(res, has_config, fs, sfc) ==
    [k \in Families \cup {"sfc_comparison"} |->
        IF k \in Families THEN ConcatFamily(res, k, 1)
        ELSE IF has_config
                /\ Len(ConcatFamily(res, "budgetary_impact", 1)) > 0
                /\ SfcFile \in fs
             THEN MergeLeft(ConcatFamily(res, "budgetary_impact", 1), sfc, 1)
             ELSE <<>>]

\* file_mapping of _save_all
FileMapping(key) ==
    CASE key = "budgetary_impact" -> "budgetary_impact.csv"
      [] key = "distributional_impact" -> "distributional_impact.csv"
      [] key = "winners_losers" -> "winners_losers.csv"
      [] key = "metrics" -> "metrics.csv"
      [] key = "income_curve" -> "income_curve.csv"
      [] key = "household_scatter" -> "household_scatter_full.csv"
      [] key = "constituency" -> "constituency.csv"
      [] key = "demographic_constituency" -> "demographic_constituency.csv"
      [] key = "sfc_comparison" -> "sfc_comparison.csv"

\* the files _save_all writes
SaveAll(data) ==
    {FileMapping(key) : key \in {k \in DOMAIN data : Len(data[k]) > 0}}

PipeInit ==
    /\ pc = "run"
    /\ skip_input_check \in BOOLEAN
    /\ files \in SUBSET {WeightsFile, ConstituenciesFile, SfcFile}
    /\ sfc_df \in (IF SfcFile \in files THEN SfcTables ELSE {<<>>})
    /\ config \in [years : SeqsUpTo(Periods, MaxYears),
                   dataset_path : BOOLEAN,
                   baseline_parameter_changes : BOOLEAN]
    /\ reforms_arg \in
          {[provided |-> FALSE, list |-> <<>>]}
             \cup {[provided |-> TRUE, list |-> l] :
                      l \in SeqsUpTo(ReformPool, MaxReforms)}
    /\ reforms = SelfReforms(reforms_arg)
    /\ removed = {}
    /\ reform_idx = 0
    /\ dataset = "unset"
    /\ sims = <<>>
    /\ year_idx = 0
    /\ acc = <<>>
    /\ calls = <<>>
    /\ results = <<>>
    /\ aggregated = <<>>
    /\ trace = <<>>
    /\ saved = {}
    /\ raised = "none"
    /\ CommonIdle /\ DecileIdle /\ ScatterIdle /\ BudIdle /\ DemoIdle
    /\ MetIdle /\ OtherIdle

\* run: if not skip_input_check: check_input_data(self.config)
CheckInputData ==
    /\ pc = "run"
    /\ ~skip_input_check
    /\ trace' = Append(trace, Event("check_input_data", "-", "-", "-", "-"))
    /\ raised' = CheckInputDataRaises(files)
    /\ pc' = IF CheckInputDataRaises(files) = "none" THEN "load_dataset"
             ELSE "raised"
    /\ UNCHANGED <<other_vars, pipe_inputs, removed, reform_idx, dataset, sims,
                   process_vars, results, aggregated, saved, calc_vars>>

\* run with skip_input_check: the check is not called
SkipInputCheck ==
    /\ pc = "run"
    /\ skip_input_check
    /\ pc' = "load_dataset"
    /\ UNCHANGED <<other_vars, pipe_inputs, removed, reform_idx, dataset, sims,
                   process_vars, results, aggregated, trace, saved, raised,
                   calc_vars>>

\* run: results = []; load the dataset when a path is configured
LoadDataset ==
    /\ pc = "load_dataset"
    /\ dataset' = IF config.dataset_path THEN "loaded" ELSE "None"
    /\ trace' = IF config.dataset_path
                THEN Append(trace,
                            Event("UKSingleYearDataset", "-", "-", "-", "-"))
                ELSE trace
    /\ reform_idx' = 1
    /\ pc' = "for_reform"
    /\ UNCHANGED <<other_vars,
                   pipe_inputs, removed, sims, process_vars, results,
                   aggregated, saved, raised, calc_vars>>

SimulationPairReformedDefault(reform, cfg, data) ==
    << Event("Microsimulation", reform.id, "baseline",
             BaselineScenario(reform, cfg), data),
       Event("Microsimulation", reform.id, "reformed", "reform_scenario",
             "None") >>

\* the two Microsimulation constructions of one reform
SimulationPair(reform, cfg, data) ==
    << Event("Microsimulation", reform.id, "baseline",
             BaselineScenario(reform, cfg), data),
       Event("Microsimulation", reform.id, "reformed", "reform_scenario",
             data) >>

\* run: the head of the loop body; a simulation is identified by the
\* position of its construction in the trace
CreateSimulations ==
    /\ pc = "for_reform"
    /\ reform_idx <= Len(reforms)
    /\ sims' = [baseline |-> Len(trace) + 1, reformed |-> Len(trace) + 2]
    /\ trace' = trace \o SimulationPair(reforms[reform_idx], config, dataset)
    /\ pc' = "process"
    /\ UNCHANGED <<other_vars,
                   pipe_inputs, removed, reform_idx, dataset, process_vars,
                   results, aggregated, saved, raised, calc_vars>>

\* process: the budgetary calculator and the empty lists of the year loop
BeginProcess ==
    /\ pc = "process"
    /\ acc' = StartLists(reforms[reform_idx], config.years)
    /\ calls' = Append(calls,
                       Call("budgetary", reforms[reform_idx], 0,
                            sims.baseline, sims.reformed, FALSE, "-",
                            "returned"))
    /\ year_idx' = 1
    /\ pc' = "for_year"
    /\ UNCHANGED <<other_vars,
                   pipe_inputs, removed, reform_idx, dataset, sims, results,
                   aggregated, trace, saved, raised, calc_vars>>

\* process: one year of the loop, up to the household scatter
CalculateYear ==
    /\ pc = "for_year"
    /\ year_idx <= Len(config.years)
    /\ acc' = YearLists(acc, reforms[reform_idx], config.years[year_idx])
    /\ calls' = calls \o YearCalls(reforms[reform_idx],
                                   config.years[year_idx], sims)
    /\ pc' = "try_constituency"
    /\ UNCHANGED <<other_vars,
                   pipe_inputs, removed, reform_idx, dataset, sims, year_idx,
                   results, aggregated, trace, saved, raised, calc_vars>>

\* process: the try block of the year, with the files now on disk
CalculateConstituency ==
    /\ pc = "try_constituency"
    /\ acc' = TryLists(acc, reforms[reform_idx], config.years[year_idx],
                       files \ removed)
    /\ calls' = calls \o TryCalls(reforms[reform_idx],
                                  config.years[year_idx], sims,
                                  files \ removed)
    /\ year_idx' = year_idx + 1
    /\ pc' = "for_year"
    /\ UNCHANGED <<other_vars,
                   pipe_inputs, removed, reform_idx, dataset, sims, results,
                   aggregated, trace, saved, raised, calc_vars>>

ProcessReformSaving ==
    /\ pc = "for_year"
    /\ year_idx > Len(config.years)
    /\ results' = Append(results, ReformResult(reforms[reform_idx], acc))
    /\ saved' = saved
                  \cup SaveAll(AggregateResults(
                                  <<ReformResult(reforms[reform_idx], acc)>>,
                                  TRUE, files \ removed, sfc_df))
    /\ trace' = Append(trace,
                       Event("process", reforms[reform_idx].id, "-", "-",
                             "-"))
    /\ reform_idx' = reform_idx + 1
    /\ pc' = "for_reform"
    /\ UNCHANGED <<other_vars, pipe_inputs, removed, dataset, sims,
                   process_vars, aggregated, raised, calc_vars>>

\* process returns its ReformResult; run: results.append(result)
ProcessReform ==
    /\ pc = "for_year"
    /\ year_idx > Len(config.years)
    /\ results' = Append(results, ReformResult(reforms[reform_idx], acc))
    /\ trace' = Append(trace,
                       Event("process", reforms[reform_idx].id, "-", "-",
                             "-"))
    /\ reform_idx' = reform_idx + 1
    /\ pc' = "for_reform"
    /\ UNCHANGED <<other_vars,
                   pipe_inputs, removed, dataset, sims, process_vars,
                   aggregated, saved, raised, calc_vars>>

\* run: after the loop, aggregate_results and _save_all
AggregateAndSave ==
    /\ pc = "for_reform"
    /\ reform_idx > Len(reforms)
    /\ aggregated' = AggregateResults(results, TRUE, files \ removed, sfc_df)
    /\ saved' = saved
                  \cup SaveAll(AggregateResults(results, TRUE,
                                                files \ removed, sfc_df))
    /\ trace' = Append(trace, Event("aggregate_results", "-", "-", "-", "-"))
    /\ pc' = "done"
    /\ UNCHANGED <<other_vars, pipe_inputs, removed, reform_idx, dataset, sims,
                   process_vars, results, raised, calc_vars>>

\* the environment deletes a constituency input file while the reforms are
\* being processed
RemoveInputFile ==
    /\ pc \in {"for_reform", "process", "for_year", "try_constituency"}
    /\ \E f \in (files \ removed) \cap {WeightsFile, ConstituenciesFile} :
          removed' = removed \cup {f}
    /\ UNCHANGED <<other_vars,
                   pc, pipe_inputs, reform_idx, dataset, sims, process_vars,
                   results, aggregated, trace, saved, raised, calc_vars>>

PipeNext ==
    \/ CheckInputData
    \/ SkipInputCheck
    \/ LoadDataset
    \/ CreateSimulations
    \/ BeginProcess
    \/ CalculateYear
    \/ CalculateConstituency
    \/ ProcessReform
    \/ AggregateAndSave

PipeSpec == PipeInit /\ [][PipeNext]_vars

\* a run during which constituency input files are deleted: the engine
\* defaults for the dataset and the baseline, and no SFC estimates
MidRunInit ==
    /\ PipeInit
    /\ SfcFile \notin files
    /\ ~config.dataset_path
    /\ ~config.baseline_parameter_changes

MidRunNext ==
    \/ PipeNext
    \/ RemoveInputFile

MidRunSpec == MidRunInit /\ [][MidRunNext]_vars

\* a Microsimulation construction or a calculator call of process raises an
\* exception other than the FileNotFoundError of the constituency block:
\* neither process nor run catches it
ProcessRaises ==
    /\ \/ pc = "process"
       \/ pc = "for_year" /\ year_idx <= Len(config.years)
       \/ pc = "try_constituency"
    /\ raised' = "Exception"
    /\ pc' = "raised"
    /\ UNCHANGED <<other_vars, pipe_inputs, removed, reform_idx, dataset, sims,
                   process_vars, results, aggregated, trace, saved,
                   calc_vars>>

\* a run during which the processing of a reform may fail
FailNext ==
    \/ PipeNext
    \/ ProcessRaises

FailSpec == MidRunInit /\ [][FailNext]_vars

-----------------------------------------------------------------------------
(* Properties of the pipeline *)

\* the operations recorded in the trace
TraceOps == {trace[i].op : i \in 1..Len(trace)}

\* a required constituency input file is missing
InputMissing == WeightsFile \notin files \/ ConstituenciesFile \notin files

\* C10: with skip_input_check false and the weights file or the reference
\* file missing, run raises FileNotFoundError before the dataset is loaded,
\* before any simulation is constructed and before any reform is processed,
\* and writes no output; with skip_input_check true the check is not
\* performed and the run goes on to process the reforms.
C10_InputCheck ==
    /\ (~skip_input_check /\ InputMissing) =>
          /\ pc \in {"run", "raised"}
          /\ (pc = "raised") => raised = "FileNotFoundError"
          /\ TraceOps \subseteq {"check_input_data"}
          /\ dataset = "unset"
          /\ results = <<>>
          /\ saved = {}
    /\ (~skip_input_check /\ ~InputMissing /\ pc # "run") =>
          (trace[1].op = "check_input_data" /\ raised = "none")
    /\ skip_input_check =>
          /\ "check_input_data" \notin TraceOps
          /\ raised = "none"
          /\ pc # "raised"
          /\ (pc = "done") =>
                /\ Len(results) = Len(reforms)
                /\ \A i \in 1..Len(reforms) :
                      \E j \in 1..Len(trace) :
                          /\ trace[j].op = "process"
                          /\ trace[j].reform_id = reforms[i].id

\* the weights file exists and the reference file is missing: the run with
\* a configured dataset path has raised after the check and done nothing else
C10_Witness ==
    /\ ~skip_input_check
    /\ WeightsFile \in files
    /\ ConstituenciesFile \notin files
    /\ config.dataset_path
    /\ pc = "raised"
    /\ raised = "FileNotFoundError"
    /\ Len(trace) = 1
    /\ trace[1].op = "check_input_data"

-----------------------------------------------------------------------------
(* Properties of ReformProcessor.process *)

\* the five metric families of the loop body that need no geography data
YearFamilies ==
    {"distributional_impact", "winners_losers", "metrics", "income_curve",
     "household_scatter"}

\* the calls of one calculator among a sequence of calls
CallsOf(cs, calc) == SelectSeq(cs, LAMBDA c : c.calc = calc)

\* the position in calls of the budgetary call of the process under way
ProcessStart ==
    CHOOSE i \in 1..Len(calls) :
        /\ calls[i].calc = "budgetary"
        /\ \A j \in (i + 1)..Len(calls) : calls[j].calc # "budgetary"

\* the calls made by the process under way
ProcessCalls == SubSeq(calls, ProcessStart, Len(calls))

\* the try blocks of the process under way in which the data was found
FoundTries ==
    SelectSeq(CallsOf(ProcessCalls, "_calculate_constituency"),
              LAMBDA c : c.outcome = "returned")

\* C11: when the constituency data is missing in the try block of a year,
\* neither a constituency row nor a demographic x constituency row is added
\* for that reform and year, the rows of the five other calculators of that
\* year are kept, the loop goes on to the next year and nothing is raised;
\* when the data is there both geography lists get the year's row; and the
\* ReformResult that process returns holds a row of the five other
\* calculators for every configured year, in order, and geography rows for
\* exactly the years in which the data was found, the same in both lists.
C11_ConstituencyRecovery ==
    [][ LET reform == reforms[reform_idx]
            year == config.years[year_idx]
        IN /\ (pc = "try_constituency" /\ pc' = "for_year"
                  /\ ~ConstituencyDataFound(files \ removed)) =>
                 /\ acc' = acc
                 /\ \A f \in YearFamilies :
                       /\ Len(acc[f]) = year_idx
                       /\ acc[f][year_idx] = Row(f, reform, year)
                 /\ calls'[Len(calls')].outcome = "FileNotFoundError"
                 /\ year_idx' = year_idx + 1
                 /\ raised' = "none"
           /\ (pc = "try_constituency" /\ pc' = "for_year"
                  /\ ConstituencyDataFound(files \ removed)) =>
                 /\ acc'.constituency =
                       Append(acc.constituency,
                              Row("constituency", reform, year))
                 /\ acc'.demographic_constituency =
                       Append(acc.demographic_constituency,
                              Row("demographic_constituency", reform, year))
                 /\ \A f \in YearFamilies : acc'[f] = acc[f]
           /\ (pc = "for_year" /\ pc' = "for_reform") =>
                 /\ Len(results') = Len(results) + 1
                 /\ raised' = "none"
                 /\ LET res == results'[Len(results')]
                    IN /\ \A f \in YearFamilies :
                             res[f] = [i \in 1..Len(config.years) |->
                                          Row(f, reform, config.years[i])]
                       /\ res.constituency =
                             [i \in 1..Len(FoundTries) |->
                                 Row("constituency", reform,
                                     FoundTries[i].year)]
                       /\ res.demographic_constituency =
                             [i \in 1..Len(FoundTries) |->
                                 Row("demographic_constituency", reform,
                                     FoundTries[i].year)]
      ]_vars

\* the input check passed, the weights file was deleted after the first year
\* of the only reform, and process returned both years' rows of the five
\* other calculators with the geography rows of the first year only
C11_Witness ==
    /\ pc = "done"
    /\ ~skip_input_check
    /\ removed = {WeightsFile}
    /\ reforms = <<TwoChildLimit>>
    /\ config.years = <<2026, 2027>>
    /\ Len(results) = 1
    /\ Len(results[1].metrics) = 2
    /\ Len(results[1].household_scatter) = 2
    /\ results[1].constituency = <<Row("constituency", TwoChildLimit, 2026)>>
    /\ results[1].demographic_constituency =
          <<Row("demographic_constituency", TwoChildLimit, 2026)>>
    /\ raised = "none"

\* the last call of the year whose distributional call is calls[i]
BlockEnd(i) ==
    LET later == {j \in (i + 1)..Len(calls) :
                     calls[j].calc \in {"distributional", "budgetary"}}
    IN IF later = {} THEN Len(calls)
       ELSE (CHOOSE j \in later : \A k \in later : j <= k) - 1

\* the requests of a variable that a call makes, as positions in its requests
RequestsOf(c, variable) ==
    {k \in 1..Len(Requests(c.calc, c.reform_id)) :
        Requests(c.calc, c.reform_id)[k][2] = variable}

\* C14: for one reform and year the decile variable is requested exactly
\* once, by the distributional calculator and from the baseline simulation;
\* the calculators called after it for that reform and year do not request
\* it again, and those that slice by decile are passed the shared table.
C14_DecileComputedOnce ==
    \A i \in 1..Len(calls) :
        calls[i].calc = "distributional" =>
            /\ Cardinality(RequestsOf(calls[i], "household_income_decile")) = 1
            /\ \A k \in RequestsOf(calls[i], "household_income_decile") :
                  Requests("distributional", calls[i].reform_id)[k][1]
                      = "baseline"
            /\ \A j \in (i + 1)..BlockEnd(i) :
                  /\ RequestsOf(calls[j], "household_income_decile") = {}
                  /\ calls[j].calc \in {"winners_losers", "metrics"} =>
                        calls[j].decile_df

\* the three labels of a metric row
RowLabels == {"reform_id", "reform_name", "year"}

\* C16: every row returned by each of the eight calculators carries the
\* reform id, the reform name and the year: this holds for the rows of every
\* family of every ReformResult and for the rows of every output table,
\* the constituency and demographic x constituency tables included.
C16_RowLabels ==
    /\ \A i \in 1..Len(results) :
          \A f \in Families :
             \A j \in 1..Len(results[i][f]) :
                RowLabels \subseteq DOMAIN results[i][f][j]
    /\ (pc = "done") =>
          \A f \in Families :
             \A j \in 1..Len(aggregated[f]) :
                RowLabels \subseteq DOMAIN aggregated[f][j]

\* the list the pipeline was given, or the default list when none was given
GivenReforms ==
    IF reforms_arg.provided THEN reforms_arg.list
    ELSE ScottishBudget2026Reforms

\* the events of one operation in the trace, in order
EventsOf(op) == SelectSeq(trace, LAMBDA e : e.op = op)

\* the number of events of one operation before position j of the trace
EventsBefore(op, j) == Cardinality({i \in 1..(j - 1) : trace[i].op = op})

\* the rows of a family for the reforms of a list, reform by reform and,
\* within a reform, year by year
RowsInOrder(f, list, ys) ==
    [k \in 1..(Len(list) * Len(ys)) |->
        LET reform == list[((k - 1) \div Len(ys)) + 1]
            year == ys[((k - 1) % Len(ys)) + 1]
        IN IF f = "budgetary_impact"
           THEN [reform_id |-> reform.id, reform_name |-> reform.name,
                 year |-> year, value |-> <<"impact", reform.id, year>>]
           ELSE Row(f, reform, year)]

\* C17: run processes exactly the reforms of the list it was given (the
\* default list when no list was given), each once and in list order; the
\* simulations of a reform are constructed after the processing of the
\* reform before it has completed; within a reform the years are handled in
\* the order of config.years; and the rows of every output table are in
\* reform order and, within a reform, in year order.
C17_ReformOrder ==
    /\ Len(EventsOf("process")) <= Len(GivenReforms)
    /\ \A i \in 1..Len(EventsOf("process")) :
          EventsOf("process")[i].reform_id = GivenReforms[i].id
    /\ (pc = "done") => Len(EventsOf("process")) = Len(GivenReforms)
    /\ \A j \in 1..Len(trace) :
          trace[j].op = "Microsimulation" =>
             EventsBefore("process", j)
                = EventsBefore("Microsimulation", j) \div 2
    /\ \A i \in 1..Len(calls) :
          calls[i].calc = "budgetary" =>
             LET upto == IF \E j \in (i + 1)..Len(calls) :
                                calls[j].calc = "budgetary"
                         THEN (CHOOSE j \in (i + 1)..Len(calls) :
                                  /\ calls[j].calc = "budgetary"
                                  /\ \A k \in (i + 1)..(j - 1) :
                                        calls[k].calc # "budgetary") - 1
                         ELSE Len(calls)
                 dist == CallsOf(SubSeq(calls, i, upto), "distributional")
             IN /\ Len(dist) <= Len(config.years)
                /\ \A k \in 1..Len(dist) : dist[k].year = config.years[k]
    /\ (pc = "done") =>
          /\ \A f \in YearFamilies \cup {"budgetary_impact"} :
                aggregated[f] = RowsInOrder(f, GivenReforms, config.years)
          /\ \A f \in {"constituency", "demographic_constituency"} :
                aggregated[f] =
                    IF ConstituencyDataFound(files)
                    THEN RowsInOrder(f, GivenReforms, config.years)
                    ELSE <<>>

\* the positions of the Microsimulation constructions in the trace
Constructions == {j \in 1..Len(trace) : trace[j].op = "Microsimulation"}

\* the number of process() calls started up to call i
ProcessNumber(i) ==
    Cardinality({j \in 1..i : calls[j].calc = "budgetary"})

\* C18: in a run with a dataset path configured the dataset is loaded
\* exactly once, before the first reform, and that dataset is handed to the
\* baseline and to the reformed Microsimulation construction of every
\* reform; for every reform one new baseline and one new reformed simulation
\* are constructed, and the calculators called for the k-th reform of the
\* run are passed the k-th pair and no other simulation.
C18_DatasetAndSimulations ==
    /\ config.dataset_path =>
          /\ Len(EventsOf("UKSingleYearDataset")) <= 1
          /\ pc \in {"for_reform", "process", "for_year", "try_constituency",
                     "done"} =>
                Len(EventsOf("UKSingleYearDataset")) = 1
          /\ \A j \in Constructions :
                /\ trace[j].dataset = "loaded"
                /\ \E i \in 1..(j - 1) : trace[i].op = "UKSingleYearDataset"
          /\ \A j \in 1..Len(trace) :
                trace[j].op = "UKSingleYearDataset" =>
                    /\ EventsBefore("Microsimulation", j) = 0
                    /\ EventsBefore("process", j) = 0
    /\ \A j \in Constructions :
          trace[j].arm =
              (IF EventsBefore("Microsimulation", j) % 2 = 0 THEN "baseline"
               ELSE "reformed")
    /\ Cardinality(Constructions) =
          2 * (Len(EventsOf("process"))
                 + (IF pc \in {"process", "for_year", "try_constituency"}
                    THEN 1 ELSE 0))
    /\ \A i \in 1..Len(calls) :
          calls[i].baseline # 0 =>
             /\ calls[i].baseline \in Constructions
             /\ calls[i].reformed \in Constructions
             /\ trace[calls[i].baseline].arm = "baseline"
             /\ trace[calls[i].reformed].arm = "reformed"
             /\ trace[calls[i].baseline].reform_id = calls[i].reform_id
             /\ trace[calls[i].reformed].reform_id = calls[i].reform_id
             /\ EventsBefore("Microsimulation", calls[i].baseline)
                   = 2 * (ProcessNumber(i) - 1)
             /\ EventsBefore("Microsimulation", calls[i].reformed)
                   = 2 * (ProcessNumber(i) - 1) + 1

\* a run with a dataset path over the same reform given twice has ended:
\* one load, four constructions, and the calculators of the second
\* process were passed the second pair
C18_Witness ==
    /\ pc = "done"
    /\ config.dataset_path
    /\ config.years = <<2026>>
    /\ reforms = <<ThresholdFreeze, ThresholdFreeze>>
    /\ Len(EventsOf("UKSingleYearDataset")) = 1
    /\ Cardinality(Constructions) = 4
    /\ \E i \in 1..Len(calls) :
          /\ calls[i].calc = "metrics"
          /\ ProcessNumber(i) = 2
          /\ EventsBefore("Microsimulation", calls[i].baseline) = 2
          /\ trace[calls[i].baseline].dataset = "loaded"

\* the baseline the priority rule gives the reform with identifier id: its
\* own custom baseline, else the global baseline of the configuration, else
\* the default of the engine
ChosenBaseline(id) ==
    LET reform == CHOOSE r \in ReformPool : r.id = id
    IN CASE reform.custom_baseline -> "reform_baseline"
         [] ~reform.custom_baseline /\ config.baseline_parameter_changes ->
                "global_baseline"
         [] OTHER -> "None"

\* C19: the baseline simulation of every reform is constructed with the
\* baseline the priority rule gives (custom baseline of the reform, then
\* global baseline, then engine default), and that baseline is the baseline
\* arm of every comparison made for the reform: of the calculators that are
\* passed the baseline simulation and of the income curve, which is passed
\* a baseline scenario.
C19_SameBaseline ==
    /\ \A j \in 1..Len(trace) :
          (trace[j].op = "Microsimulation" /\ trace[j].arm = "baseline") =>
              trace[j].scenario = ChosenBaseline(trace[j].reform_id)
    /\ \A i \in 1..Len(calls) :
          /\ calls[i].baseline # 0 =>
                trace[calls[i].baseline].scenario
                    = ChosenBaseline(calls[i].reform_id)
          /\ calls[i].calc = "income_curve" =>
                calls[i].baseline_scenario
                    = ChosenBaseline(calls[i].reform_id)

-----------------------------------------------------------------------------
(* aggregate_results as a function of a results list, a config argument    *)
(* and the estimates file.                                                  *)

\* the row lists a ReformResult may hold for a reform
ResultLists(reform, shape) ==
    LET rows(f, ys) == [i \in 1..Len(ys) |-> Row(f, reform, ys[i])]
        none == [f \in Families |-> <<>>]
        full == [f \in Families |->
                    IF f = "budgetary_impact"
                    THEN BudgetaryRows(reform, <<2026, 2027>>)
                    ELSE IF f = "metrics" THEN rows(f, <<2026>>)
                    ELSE rows(f, <<2026, 2027>>)]
    IN  CASE shape = "empty" -> none
          [] shape = "full" -> full
          [] shape = "no_constituency" ->
                [full EXCEPT !["constituency"] = <<>>,
                             !["demographic_constituency"] = <<>>,
                             !["budgetary_impact"] =
                                 BudgetaryRows(reform, <<2026>>)]
          [] shape = "budgetary_only" ->
                [none EXCEPT !["budgetary_impact"] =
                                 BudgetaryRows(reform, <<2027>>)]

\* the ReformResult objects aggregate_results may be passed
ReformResults ==
    { ReformResult(reform, ResultLists(reform, shape)) :
        reform \in ReformPool,
        shape \in {"empty", "full", "no_constituency", "budgetary_only"} }

\* the contents the estimates file may have
SfcEstimates ==
    SfcTables \cup
    { << [reform_id |-> "scottish_threshold_freeze", year |-> 2026,
          sfc_value |-> "0.07"],
         [reform_id |-> "scottish_threshold_freeze", year |-> 2026,
          sfc_value |-> "0.08"] >>,
      << [reform_id |-> "two_child_limit_removal", year |-> 2027,
          sfc_value |-> "0.1"],
         [reform_id |-> "scottish_threshold_freeze", year |-> 2027,
          sfc_value |-> "0.2"] >>,
      << [reform_id |-> "scottish_threshold_freeze", year |-> 2026] >> }

AggInit ==
    /\ agg_in \in [results : SeqsUpTo(ReformResults, MaxReforms),
                   config : BOOLEAN, sfc_exists : BOOLEAN,
                   sfc_df : SfcEstimates]
    /\ (~agg_in.sfc_exists => agg_in.sfc_df = <<>>)
    /\ agg_out = <<>>
    /\ CommonIdle /\ DecileIdle /\ ScatterIdle /\ BudIdle /\ DemoIdle
    /\ MetIdle /\ PipeIdle /\ CurveIdle /\ ConIdle /\ RegIdle /\ ValIdle

\* aggregate_results(results, config)
AggregateTables ==
    /\ agg_out = <<>>
    /\ agg_out' = AggregateResults(agg_in.results, agg_in.config,
                                   IF agg_in.sfc_exists THEN {SfcFile} ELSE {},
                                   agg_in.sfc_df)
    /\ UNCHANGED <<calc_vars, pipe_vars, curve_vars, con_vars, agg_in,
                   reg_vars, val_vars>>

AggNext == AggregateTables

AggSpec == AggInit /\ [][AggNext]_vars

\* the budgetary-impact table aggregate_results has built
BudgetTable == agg_out["budgetary_impact"]

\* the comparison table is built: config given, budgetary rows, file exists
ComparisonBuilt ==
    agg_in.config /\ Len(BudgetTable) > 0 /\ agg_in.sfc_exists

\* the comparison table has exactly one row per budgetary row, in order,
\* with the keys of that row and its value as policyengine_value
OneRowPerBudgetaryRow ==
    /\ Len(agg_out["sfc_comparison"]) = Len(BudgetTable)
    /\ \A i \in 1..Len(BudgetTable) :
          /\ agg_out["sfc_comparison"][i].reform_id = BudgetTable[i].reform_id
          /\ agg_out["sfc_comparison"][i].year = BudgetTable[i].year
          /\ agg_out["sfc_comparison"][i].policyengine_value
                = BudgetTable[i].value

\* C26: the comparison table keeps every budgetary row exactly once, with
\* its value as policyengine_value, whether or not the estimates have a
\* matching row; it is empty when no config is given, when there are no
\* budgetary rows or when the estimates file does not exist.
C26_ComparisonJoin ==
    agg_out # <<>> =>
        IF ComparisonBuilt THEN OneRowPerBudgetaryRow
        ELSE agg_out["sfc_comparison"] = <<>>

\* no two rows of the estimates have the same reform_id and year
UniqueEstimates ==
    \A i, j \in 1..Len(agg_in.sfc_df) :
        (/\ agg_in.sfc_df[i].reform_id = agg_in.sfc_df[j].reform_id
         /\ agg_in.sfc_df[i].year = agg_in.sfc_df[j].year) => i = j

\* the part of C26 the code satisfies: the claim for estimates whose rows
\* have distinct keys
C26_UniqueEstimates ==
    (agg_out # <<>> /\ UniqueEstimates) => C26_ComparisonJoin

\* the number of rows the results before result i hold for a family
RowsBefore(family, i) ==
    SumSeq([k \in 1..(i - 1) |-> Len(agg_in.results[k][family])])

\* C29: aggregate_results returns all nine table keys, and the table of
\* each of the eight families holds the rows of that family's lists, in the
\* order of the results list and within a result in the order of its list:
\* as many rows as the lengths of the lists sum to, a result with an empty
\* list contributing nothing.
C29_AggregateRows ==
    agg_out # <<>> =>
        /\ DOMAIN agg_out = Families \cup {"sfc_comparison"}
        /\ Cardinality(DOMAIN agg_out) = 9
        /\ \A f \in Families :
              /\ Len(agg_out[f]) = RowsBefore(f, Len(agg_in.results) + 1)
              /\ \A i \in 1..Len(agg_in.results) :
                    \A j \in 1..Len(agg_in.results[i][f]) :
                        agg_out[f][RowsBefore(f, i) + j]
                            = agg_in.results[i][f][j]

\* two results for different reforms, the first without constituency rows:
\* the constituency table holds the second result's rows only and the
\* metrics table one row of each, the first result's first
C29_Witness ==
    /\ agg_out # <<>>
    /\ Len(agg_in.results) = 2
    /\ agg_in.results[1].reform_id = "two_child_limit_removal"
    /\ agg_in.results[2].reform_id = "scottish_threshold_freeze"
    /\ agg_in.results[1].constituency = <<>>
    /\ Len(agg_out["constituency"]) = 2
    /\ agg_out["constituency"][1].reform_id = "scottish_threshold_freeze"
    /\ Len(agg_out["metrics"]) = 2
    /\ agg_out["metrics"][1].reform_id = "two_child_limit_removal"
    /\ agg_out["metrics"][2].reform_id = "scottish_threshold_freeze"

-----------------------------------------------------------------------------
(* The reform registry of reforms.py: two lazily built module-level caches *)
(* and the three public getters.                                            *)

\* the largest number of calls made to the public getters
MaxCalls == 3

\* the ids get_reform may be asked for
ReformIds ==
    {"scottish_threshold_freeze", "two_child_limit_removal",
     "scottish_child_payment_increase", "unknown"}

\* a cache holding a value
SomeCache(value) == [is_none |-> FALSE, value |-> value]

NeedsBuildAlways(cache) == TRUE

\* <cache> is None
NeedsBuild(cache) == cache.is_none

\* {r.id: r for r in reforms}: the keys in order of first insertion, each
\* with the last reform of that id
RECURSIVE DictOf(_)
DictOf(rs) ==
    IF rs = <<>> THEN <<>>
    ELSE LET init == DictOf(SubSeq(rs, 1, Len(rs) - 1))
             last == rs[Len(rs)]
         IN  IF \E k \in 1..Len(init) : init[k].key = last.id
             THEN [k \in 1..Len(init) |->
                      IF init[k].key = last.id
                      THEN [key |-> last.id, value |-> last]
                      ELSE init[k]]
             ELSE Append(init, [key |-> last.id, value |-> last])

\* _get_scottish_budget_2026_reforms: the registry after the call
GetReformsCache(reg) ==
    IF NeedsBuild(reg.reforms_cache)
    THEN [reg EXCEPT !.reforms_cache = SomeCache(ScottishBudget2026Reforms),
                     !.list_builds = @ + 1]
    ELSE reg

\* _get_reform_lookup: the registry after the call
GetReformLookup(reg) ==
    IF NeedsBuild(reg.lookup_cache)
    THEN LET built == GetReformsCache(reg)
         IN  [built EXCEPT
                 !.lookup_cache =
                     SomeCache(DictOf(built.reforms_cache.value)),
                 !.lookup_builds = @ + 1]
    ELSE reg

\* dict.get(key): the value in a one-element list, the empty list for None
DictGet(dict, key) ==
    LET hits == SelectSeq(dict, LAMBDA e : e.key = key)
    IN  IF hits = <<>> THEN <<>> ELSE <<hits[1].value>>

\* list(dict.keys())
DictKeys(dict) == [k \in 1..Len(dict) |-> dict[k].key]

RegInit ==
    /\ RegIdle /\ ValIdle
    /\ CommonIdle /\ DecileIdle /\ ScatterIdle /\ BudIdle /\ DemoIdle
    /\ MetIdle /\ PipeIdle /\ CurveIdle /\ ConIdle /\ AggIdle

\* get_scottish_budget_2026_reforms()
GetScottishBudget2026Reforms ==
    /\ Len(registry_calls) < MaxCalls
    /\ registry' = GetReformsCache(registry)
    /\ registry_calls' =
          Append(registry_calls,
                 [op |-> "get_scottish_budget_2026_reforms", arg |-> "-",
                  result |-> GetReformsCache(registry).reforms_cache.value])
    /\ UNCHANGED <<calc_vars, pipe_vars, curve_vars, con_vars, agg_vars,
                   val_vars>>

\* get_reform(reform_id)
GetReform ==
    /\ Len(registry_calls) < MaxCalls
    /\ \E reform_id \in ReformIds :
          /\ registry' = GetReformLookup(registry)
          /\ registry_calls' =
                Append(registry_calls,
                       [op |-> "get_reform", arg |-> reform_id,
                        result |->
                           DictGet(GetReformLookup(registry).lookup_cache.value,
                                   reform_id)])
    /\ UNCHANGED <<calc_vars, pipe_vars, curve_vars, con_vars, agg_vars,
                   val_vars>>

\* list_reform_ids()
ListReformIds ==
    /\ Len(registry_calls) < MaxCalls
    /\ registry' = GetReformLookup(registry)
    /\ registry_calls' =
          Append(registry_calls,
                 [op |-> "list_reform_ids", arg |-> "-",
                  result |->
                     DictKeys(GetReformLookup(registry).lookup_cache.value)])
    /\ UNCHANGED <<calc_vars, pipe_vars, curve_vars, con_vars, agg_vars,
                   val_vars>>

RegNext ==
    \/ GetScottishBudget2026Reforms
    \/ GetReform
    \/ ListReformIds

RegSpec == RegInit /\ [][RegNext]_vars

\* the results of the calls made so far to one getter
ResultsOf(op) ==
    { registry_calls[n].result :
        n \in { k \in 1..Len(registry_calls) : registry_calls[k].op = op } }

\* C27: after any sequence of calls to the three getters the registry has
\* been built at most once and is consistent: every list_reform_ids()
\* result is the ids of the reform list in order, get_reform(id) returned
\* the reform of the list with that id for a listed id and None for any
\* other id, and every call of get_scottish_budget_2026_reforms() returned
\* the same list.
C27_RegistryConsistent ==
    LET reform_list == ScottishBudget2026Reforms
    IN  /\ registry.list_builds <= 1
        /\ registry.lookup_builds <= 1
        /\ ResultsOf("get_scottish_budget_2026_reforms") \subseteq {reform_list}
        /\ ResultsOf("list_reform_ids")
              \subseteq {[i \in 1..Len(reform_list) |-> reform_list[i].id]}
        /\ \A n \in 1..Len(registry_calls) :
              registry_calls[n].op = "get_reform" =>
                 LET listed == { i \in 1..Len(reform_list) :
                                   reform_list[i].id = registry_calls[n].arg }
                 IN  IF listed = {} THEN registry_calls[n].result = <<>>
                     ELSE \E i \in listed :
                             registry_calls[n].result = <<reform_list[i]>>

\* get_reform for an id that is not registered, then list_reform_ids, then
\* get_reform for a registered id: one construction of each cache
C27_Witness ==
    /\ Len(registry_calls) = 3
    /\ registry_calls[1].op = "get_reform"
    /\ registry_calls[1].arg = "scottish_child_payment_increase"
    /\ registry_calls[1].result = <<>>
    /\ registry_calls[2].op = "list_reform_ids"
    /\ registry_calls[3].op = "get_reform"
    /\ registry_calls[3].arg = "two_child_limit_removal"
    /\ registry_calls[3].result = <<TwoChildLimit>>
    /\ registry.list_builds = 1
    /\ registry.lookup_builds = 1

-----------------------------------------------------------------------------
(* Failures while the reforms are processed *)

\* C28: when the processing of a reform raises an uncaught failure in run,
\* no output table is written at all, neither for the failing reform nor
\* for the reforms processed before it: tables are aggregated and saved
\* only once every reform has been processed.
C28_NoPartialOutput ==
    /\ raised # "none" => (saved = {} /\ aggregated = <<>>)
    /\ saved # {} =>
          /\ pc = "done"
          /\ raised = "none"
          /\ Len(results) = Len(reforms)

\* the second reform fails after the first has been processed with rows
C28_Witness ==
    /\ raised = "Exception"
    /\ reform_idx = 2
    /\ Len(results) = 1
    /\ results[1].budgetary_impact # <<>>
    /\ results[1].metrics # <<>>
    /\ saved = {}

-----------------------------------------------------------------------------
(* BudgetaryImpactCalculator.calculate_from_values.  A balance mapping is a *)
(* dict from years to pre-computed aggregates.                               *)

\* the years the two balance mappings may have as keys
BalanceKeys ==
    { <<{2026, 2027}, {2026, 2027}>>, <<{2026}, {2026, 2027}>>,
      <<{2026, 2027}, {2027}>>, <<{}, {2026}>> }

\* the dict {year: aggregate of the variable in the simulation}
BalanceMapping(simulation, variable, keys) ==
    [year \in keys |-> SumSeq(simulation[variable][year])]

BudgetFromValuesBaselineOnly(ys, a, baseline_balances, reformed_balances) ==
    LET present == SelectSeq(ys, LAMBDA y : y \in DOMAIN baseline_balances)
    IN  [i \in 1..Len(present) |->
            [reform_id |-> a.reform_id,
             reform_name |-> a.reform_name,
             year |-> present[i],
             value |->
                Rat((IF present[i] \in DOMAIN reformed_balances
                     THEN reformed_balances[present[i]] ELSE 0)
                       - baseline_balances[present[i]], Billion)]]

\* the rows of calculate_from_values: the loop over self.years
BudgetCalculateFromValues(ys, a, baseline_balances, reformed_balances) ==
    LET present ==
            SelectSeq(ys, LAMBDA y : /\ y \in DOMAIN baseline_balances
                                     /\ y \in DOMAIN reformed_balances)
    IN  [i \in 1..Len(present) |->
            [reform_id |-> a.reform_id,
             reform_name |-> a.reform_name,
             year |-> present[i],
             value |-> Rat(reformed_balances[present[i]]
                              - baseline_balances[present[i]], Billion)]]

ValInit ==
    /\ called = {}
    /\ args \in CallArgs
    /\ years \in SeqsUpTo(Periods, MaxYears)
    /\ baseline \in Simulations
    /\ reformed \in Simulations
    /\ sim_reads = {}
    /\ bud_results = <<>>
    /\ \E variable \in BalanceVariables, keys \in BalanceKeys :
          val_in = [variable |-> variable,
                    baseline_balances |->
                       BalanceMapping(baseline, variable, keys[1]),
                    reformed_balances |->
                       BalanceMapping(reformed, variable, keys[2])]
    /\ val_results = <<>>
    /\ DecileIdle /\ ScatterIdle /\ DemoIdle /\ PipeIdle /\ MetIdle
    /\ CurveIdle /\ ConIdle /\ AggIdle /\ RegIdle

\* BudgetaryImpactCalculator.calculate_from_values
BudgetaryCalculateFromValues ==
    /\ "budgetary_from_values" \notin called
    /\ val_results' =
          BudgetCalculateFromValues(years, args, val_in.baseline_balances,
                                    val_in.reformed_balances)
    /\ called' = called \cup {"budgetary_from_values"}
    /\ UNCHANGED <<args, decile_vars, scatter_vars, bud_vars, demo_vars,
                   met_vars, pipe_vars, curve_vars, con_vars, agg_vars,
                   reg_vars, val_in>>

ValNext ==
    \/ BudgetaryCalculate
    \/ BudgetaryCalculateFromValues

ValSpec == ValInit /\ [][ValNext]_vars

\* configured year number i has a balance in both mappings
InBoth(i) ==
    /\ years[i] \in DOMAIN val_in.baseline_balances
    /\ years[i] \in DOMAIN val_in.reformed_balances

\* the number of configured years up to number i that are in both mappings
RankInBoth(i) == Cardinality({j \in 1..i : InBoth(j)})

\* the mappings hold, for every configured year, the aggregate calculate
\* reads for the reform
SameAggregates ==
    /\ val_in.variable = BudgetVariable(args.reform_id)
    /\ \A i \in 1..Len(years) : InBoth(i)

\* C30: calculate_from_values emits a row for a configured year exactly when
\* the year is a key of both balance mappings, in the order of the years
\* list, with value (reformed - baseline) / 1e9 and the labels of the call;
\* years of the mappings that are not configured give no row; and for the
\* aggregates calculate reads it returns the rows calculate returns.
C30_FromValues ==
    "budgetary_from_values" \in called =>
        /\ Len(val_results) = RankInBoth(Len(years))
        /\ \A i \in 1..Len(years) :
              InBoth(i) =>
                 LET row == val_results[RankInBoth(i)]
                 IN  /\ row.year = years[i]
                     /\ row.reform_id = args.reform_id
                     /\ row.reform_name = args.reform_name
                     /\ row.value
                           = [num |-> val_in.reformed_balances[years[i]]
                                         - val_in.baseline_balances[years[i]],
                              den |-> Billion]
        /\ \A k \in 1..Len(val_results) :
              \E i \in 1..Len(years) : val_results[k].year = years[i]
        /\ ("budgetary" \in called /\ SameAggregates) =>
              val_results = bud_results

\* the years 2027, 2026 configured, the baseline mapping without 2027: one
\* row, for 2026, with a nonzero value
C30_Witness ==
    /\ "budgetary_from_values" \in called
    /\ years = <<2027, 2026>>
    /\ DOMAIN val_in.baseline_balances = {2026}
    /\ DOMAIN val_in.reformed_balances = {2026, 2027}
    /\ Len(val_results) = 1
    /\ val_results[1].year = 2026
    /\ val_results[1].value.num # 0

\* both methods called for the same aggregates of a student loan reform,
\* two years configured, a mapping year not configured: the same two rows
C30_SameRows ==
    /\ {"budgetary", "budgetary_from_values"} \subseteq called
    /\ SameAggregates
    /\ args.reform_id = "freeze_student_loan_thresholds"
    /\ years = <<2027, 2027>>
    /\ DOMAIN val_in.baseline_balances = {2026, 2027}
    /\ Len(val_results) = 2
    /\ val_results = bud_results
    /\ val_results[1].value.num # 0

====
